---- MODULE Spec2Model ----
(***************************************************************************)
(* Segment-to-shard packaging and upload pipeline of                       *)
(* multilingual_tts_parliament (src/countries/upload_dataset):             *)
(*   - the Shard Packer     create_local_webdataset_shards.py              *)
(*   - the Manifest Generator scripts/generate_manifest.py                 *)
(*   - the Uploader          scripts/batch_upload.py                       *)
(* The manifest and the split table are files shared by the three tools.   *)
(* Sizes are in abstract units, times in units of 1/UnitsPerMs ms, CER     *)
(* values in hundredths.                                                   *)
(***************************************************************************)
EXTENDS Integers, Sequences, FiniteSets, TLC

VARIABLES
    manifest,   \* <country>_manifest.csv on disk: sequence of rows
    splits,     \* <country>_splits.csv on disk: sequence of rows
    shards,     \* final shard paths of the output dir: name -> archive
    tmp,        \* temporary archive paths of the running Packer process
    missing,    \* source audio files that do not exist on disk
    badAudio,   \* segment keys whose audio extraction raises
    pk,         \* the Packer process: its position and its globals/locals
    runs,       \* number of Packer processes started so far
    hist,       \* observations of the Packer runs (history only)
    gen,        \* the Manifest Generator: alignment directory, process, history
    up          \* the Uploader: process, dataset repository, history

vars == <<manifest, splits, shards, tmp, missing, badAudio, pk, runs, hist, gen, up>>

----------------------------------------------------------------------------
(* Bounds of the model *)
NumFiles == 2
MaxSegs == 2
MaxRuns == 2
MaxShardSize == 4

(* generic helpers *)
Range(s) == {s[i] : i \in 1..Len(s)}

RECURSIVE SumSeq(_)
SumSeq(s) == IF s = <<>> THEN 0 ELSE Head(s) + SumSeq(Tail(s))

RECURSIVE Flatten(_)
Flatten(ss) == IF ss = <<>> THEN <<>> ELSE Head(ss) \o Flatten(Tail(ss))

(* the ascending sequence of the elements of a finite set of integers *)
RECURSIVE SortedSeq(_)
SortedSeq(S) ==
    IF S = {} THEN <<>>
    ELSE LET m == CHOOSE x \in S : \A y \in S : x <= y
         IN <<m>> \o SortedSeq(S \ {m})

Max0(a, b) == IF a >= b THEN a ELSE b

----------------------------------------------------------------------------
(* Status constants of the Packer *)
STATUS_PENDING_LOCAL_TAR == "pending_local_tar"
STATUS_COMPLETED_LOCAL_TAR == "completed_local_tar"
STATUS_ERROR_LOCAL_TAR_CER == "error_local_tar_cer"
STATUS_ERROR_LOCAL_TAR_PROCESSING == "error_local_tar_processing"
STATUS_ERROR_LOCAL_TAR_MISSING_SOURCE == "error_local_tar_missing_source"
STATUS_ERROR_LOCAL_TAR_AUDIO_LOAD == "error_local_tar_audio_load"

(* --max-cer as configured for the runs modelled (hundredths) *)
DEFAULT_MAX_CER == 30

(* time stamps are stored in seconds as floats; a model time unit is       *)
(* 1/UnitsPerMs of a millisecond                                           *)
UnitsPerMs == 2

(* int(seconds * 1000): truncation toward zero *)
ToMs(t) == IF t >= 0 THEN t \div UnitsPerMs ELSE -((-t) \div UnitsPerMs)

(* utils.generate_segment_key *)
generate_segment_key(video, start, end) == <<video, ToMs(start), ToMs(end)>>

NoTar == <<"none", 0>>
FixedSplits == <<"test", "validation">>

----------------------------------------------------------------------------
(* The inputs of a Packer run: a manifest as the Manifest Generator writes *)
(* it (rows of one source file contiguous, no webdataset_status column),   *)
(* the split table, the audio files and the output directory.              *)

Files == 1..NumFiles

(* one segment of an alignment file: its CER, whether its time range       *)
(* survives the conversion to milliseconds, whether its audio decodes      *)
GoodSeg == [cer |-> 5, timeOK |-> TRUE, audioOK |-> TRUE]
SegKinds ==
    { GoodSeg,
      [cer |-> DEFAULT_MAX_CER, timeOK |-> TRUE, audioOK |-> TRUE],
      [cer |-> DEFAULT_MAX_CER + 15, timeOK |-> TRUE, audioOK |-> TRUE],
      [cer |-> 5, timeOK |-> FALSE, audioOK |-> TRUE],
      [cer |-> 5, timeOK |-> TRUE, audioOK |-> FALSE] }

(* the j-th segment of a file covers model times [4(j-1), 4j); a segment   *)
(* whose range collapses in milliseconds covers [4(j-1)+2, 4(j-1)+3)       *)
SegStart(j, k) == IF k.timeOK THEN 4 * (j - 1) ELSE 4 * (j - 1) + 2
SegEnd(j, k) == IF k.timeOK THEN 4 * j ELSE 4 * (j - 1) + 3

ManifestRow(f, j, k, sp) ==
    [ key |-> generate_segment_key(f, SegStart(j, k), SegEnd(j, k)),
      src |-> f, start |-> SegStart(j, k), end |-> SegEnd(j, k),
      cer |-> k.cer, status |-> "pending", split |-> sp, wstatus |-> "",
      error_message |-> "" ]

FileRows(f, ks, sp) == [j \in 1..Len(ks) |-> ManifestRow(f, j, ks[j], sp)]

SplitRow(f, sp) == [src |-> f, split |-> sp, size_mb |-> 1, subset_id |-> <<>>]

(* an archive: its entries in order, and whether it was closed properly *)
Entry(key, ext, bytes, data) == [key |-> key, ext |-> ext, bytes |-> bytes, data |-> data]
ForeignKey == <<0, 0, 0>>
PreShard(n) ==
    [ entries |-> [i \in 1..n |-> Entry(ForeignKey, IF i = 1 THEN "json" ELSE "opus", 1, ForeignKey)],
      closed |-> TRUE ]

FileOrders == { o \in [Files -> Files] : \A f \in Files : \E i \in Files : o[i] = f }

Deviations(kinds, sp, order, miss, pre) ==
    Cardinality({ <<f, j>> \in Files \X (1..MaxSegs) : j <= Len(kinds[f]) /\ kinds[f][j] # GoodSeg })
    + Cardinality(miss)
    + Cardinality({ f \in Files : sp[f] = "none" })
    + (IF order = [f \in Files |-> f] THEN 0 ELSE 1)
    + (IF pre = 0 THEN 0 ELSE 1)

MaxDeviations == 1

KindSeqs == UNION { [1..n -> SegKinds] : n \in 1..MaxSegs }

PackWorlds ==
    { w \in [ kinds : [Files -> KindSeqs],
              sp : [Files -> {"test", "validation", "train", "none"}],
              order : FileOrders,
              miss : SUBSET Files,
              pre : {0, 2, MaxShardSize} ] :
        Deviations(w.kinds, w.sp, w.order, w.miss, w.pre) <= MaxDeviations }

WorldManifest(w) ==
    Flatten([i \in Files |->
        FileRows(w.order[i], w.kinds[w.order[i]],
                 IF w.sp[w.order[i]] = "none" THEN "train" ELSE w.sp[w.order[i]])])

WorldSplits(w) ==
    Flatten([f \in Files |-> IF w.sp[f] = "none" THEN <<>> ELSE <<SplitRow(f, w.sp[f])>>])

WorldBadAudio(w) ==
    { generate_segment_key(f, SegStart(j, w.kinds[f][j]), SegEnd(j, w.kinds[f][j])) :
        <<f, j>> \in { x \in Files \X (1..MaxSegs) :
                        x[2] <= Len(w.kinds[x[1]]) /\ ~w.kinds[x[1]][x[2]].audioOK } }

WorldShards(w) ==
    IF w.pre = 0 THEN <<>> ELSE (<<"train", 1>> :> PreShard(w.pre))

(* the Packer before main() starts: module globals as initialised at import *)
PkIdle ==
    [ pc |-> "idle",
      manifest_df |-> <<>>,
      pending_df_merged |-> <<>>,
      manifest_updates_collector |-> <<>>,
      split_i |-> 0,
      groups |-> <<>>,
      segments_df |-> <<>>,
      tar_obj |-> NoTar,
      caller |-> "none",
      total_bytes_added |-> 0,
      segments_processed |-> 0,
      active_tar_file |-> NoTar,
      active_tar_final_path |-> NoTar,
      active_train_tar_obj |-> NoTar,
      train_shard_idx |-> 0,
      active_train_tar_current_size_bytes |-> 0,
      pool |-> <<>> ]

(* the other two tools are not running *)
GenOff == [pc |-> "off"]
UpOff == [pc |-> "off"]

HistInit ==
    [ cut |-> "none", ncut |-> 0, cutRun |-> 0, cutDone |-> {}, done |-> {},
      processed |-> [r \in 1..MaxRuns |-> {}], gate |-> {}, reuse |-> FALSE,
      sig |-> FALSE, num_processes |-> 1, worker_wrote |-> {} ]

InitPack ==
    \E w \in PackWorlds :
        /\ manifest = WorldManifest(w)
        /\ splits = WorldSplits(w)
        /\ shards = WorldShards(w)
        /\ tmp = <<>>
        /\ missing = w.miss
        /\ badAudio = WorldBadAudio(w)
        /\ pk = PkIdle
        /\ runs = 0
        /\ hist = [HistInit EXCEPT !.reuse = w.pre \in 1..(MaxShardSize - 1)]
        /\ gen = GenOff
        /\ up = UpOff

----------------------------------------------------------------------------
(* Shard Packer: create_local_webdataset_shards.py *)

avg_segment_size == 1

(* os.stat(...).st_size of an archive *)
ArchiveBytes(a) == SumSeq([i \in 1..Len(a.entries) |-> a.entries[i].bytes])

(* main: rows whose webdataset_status is missing or empty become pending *)
LoadManifest ==
    [i \in 1..Len(manifest) |->
        IF manifest[i].wstatus = "" THEN STATUS_PENDING_LOCAL_TAR ELSE manifest[i].wstatus]

(* pd.merge(all_pending_df, splits_df_subset, on="source_audio_path",       *)
(* how="left"): one output row per pending row and matching split row (one *)
(* row with a null split when none matches), labelled by a fresh           *)
(* RangeIndex; pos remembers the manifest row the output row came from.    *)
MergeWithSplits(df) ==
    LET pend == SortedSeq({i \in 1..Len(df) : df[i] = STATUS_PENDING_LOCAL_TAR})
        joined ==
            Flatten([n \in 1..Len(pend) |->
                LET m == SelectSeq(splits, LAMBDA r : r.src = manifest[pend[n]].src)
                IN IF m = <<>> THEN << [pos |-> pend[n], split |-> "NaN"] >>
                   ELSE [j \in 1..Len(m) |-> [pos |-> pend[n], split |-> m[j].split]]])
    IN [i \in 1..Len(joined) |-> [idx |-> i, pos |-> joined[i].pos, split |-> joined[i].split]]

(* pending_df_merged.dropna(subset=["split"]) *)
DropUnmapped(m) == SelectSeq(m, LAMBDA r : r.split # "NaN")

SplitSegments(p, sp) == SelectSeq(p.pending_df_merged, LAMBDA r : r.split = sp)

(* the group keys of df.groupby("source_audio_path"), in sorted order *)
GroupKeys(rows) == SortedSeq({manifest[rows[i].pos].src : i \in 1..Len(rows)})

FileSegments(rows, f) == SelectSeq(rows, LAMBDA r : manifest[r.pos].src = f)

KeysOf(rows) == {manifest[rows[i].pos].key : i \in 1..Len(rows)}

(* the loop "for original_idx, status, error_msg in collector:               *)
(*     manifest_df.loc[original_idx, 'webdataset_status'] = status"         *)
RECURSIVE ApplyUpdates(_, _)
ApplyUpdates(df, coll) ==
    IF coll = <<>> THEN df
    ELSE ApplyUpdates(
            IF Head(coll).idx \in 1..Len(df)
            THEN [df EXCEPT ![Head(coll).idx] = Head(coll).status]
            ELSE df,
            Tail(coll))

(* save_manifest_atomically: the whole table replaces the manifest file *)
SavedManifest(df) == [i \in 1..Len(manifest) |-> [manifest[i] EXCEPT !.wstatus = df[i]]]

(* save_manifest_updates: <<process record, manifest file>> afterwards *)
save_manifest_updates(p) ==
    IF p.manifest_updates_collector # <<>>
    THEN LET df == ApplyUpdates(p.manifest_df, p.manifest_updates_collector)
         IN << [p EXCEPT !.manifest_df = df, !.manifest_updates_collector = <<>>],
               SavedManifest(df) >>
    ELSE <<p, manifest>>

(* cleanup_and_close_tar with the os.replace but without the close() *)
cleanup_and_close_tar_noclose(p, t, sh) ==
    IF p.active_tar_file = NoTar THEN <<p, t, sh>>
    ELSE LET cleared == [p EXCEPT !.active_tar_file = NoTar, !.active_tar_final_path = NoTar]
         IN IF p.active_tar_file \in DOMAIN t
            THEN << cleared,
                    [n \in DOMAIN t \ {p.active_tar_file} |-> t[n]],
                    (p.active_tar_final_path :> t[p.active_tar_file]) @@ sh >>
            ELSE <<cleared, t, sh>>

(* cleanup_and_close_tar: <<process record, tmp, shards>> afterwards *)
cleanup_and_close_tar(p, t, sh) ==
    IF p.active_tar_file = NoTar THEN <<p, t, sh>>
    ELSE LET cleared == [p EXCEPT !.active_tar_file = NoTar, !.active_tar_final_path = NoTar]
         IN IF p.active_tar_file \in DOMAIN t
            THEN << cleared,
                    [n \in DOMAIN t \ {p.active_tar_file} |-> t[n]],
                    (p.active_tar_final_path :> [t[p.active_tar_file] EXCEPT !.closed = TRUE])
                        @@ sh >>
            ELSE <<cleared, t, sh>>

(* create_tar_file: tarfile.open(temp_path, "w") *)
create_tar_file(t, name) == (name :> [entries |-> <<>>, closed |-> FALSE]) @@ t

(* extractor.extract_segment: the bytes of [start_ms, end_ms) of the file *)
SegmentBytes(start_ms, end_ms) == end_ms - start_ms

(* len(metadata_bytes) of a segment's JSON entry *)
metadata_bytes == 1

Update(idx, status) == [idx |-> idx, status |-> status]

(* add_segment_to_tar: <<tmp, collector, bytes added>> afterwards; tar_obj  *)
(* None makes tar_obj.addfile raise, which the function catches            *)
add_segment_to_tar(t, tar_obj, r, audio, coll) ==
    LET row == manifest[r.pos]
    IN IF tar_obj = NoTar
       THEN <<t, Append(coll, Update(r.idx, STATUS_ERROR_LOCAL_TAR_PROCESSING)), 0>>
       ELSE << [t EXCEPT ![tar_obj].entries =
                    @ \o << Entry(row.key, "json", metadata_bytes, row.key),
                            Entry(row.key, "opus", audio.bytes, audio.data) >>],
               Append(coll, Update(r.idx, STATUS_COMPLETED_LOCAL_TAR)),
               metadata_bytes + audio.bytes >>

(* main, lines 704-830 *)
P_Start ==
    /\ pk.pc = "idle"
    /\ runs < MaxRuns
    /\ runs' = runs + 1
    /\ tmp' = <<>>
    /\ hist' = [hist EXCEPT !.done = {}, !.sig = FALSE]
    /\ LET df == LoadManifest
           merged == DropUnmapped(MergeWithSplits(df))
       IN pk' = IF merged = <<>> THEN PkIdle
                ELSE [PkIdle EXCEPT !.pc = "fixed_split", !.manifest_df = df,
                                    !.pending_df_merged = merged, !.split_i = 1]
    /\ UNCHANGED <<manifest, splits, shards, missing, badAudio, gen, up>>

(* main, lines 833-846: next of test, validation; open its temporary tar *)
P_FixedSplit ==
    /\ pk.pc = "fixed_split"
    /\ LET sp == FixedSplits[pk.split_i]
           rows == SplitSegments(pk, sp)
       IN IF rows = <<>>
          THEN /\ pk' = IF pk.split_i < Len(FixedSplits)
                        THEN [pk EXCEPT !.split_i = @ + 1]
                        ELSE [pk EXCEPT !.pc = "train_init"]
               /\ tmp' = tmp
          ELSE /\ tmp' = create_tar_file(tmp, <<sp, 0>>)
               /\ pk' = [pk EXCEPT !.pc = "file_loop", !.caller = "fixed",
                                   !.tar_obj = <<sp, 0>>, !.groups = GroupKeys(rows)]
    /\ UNCHANGED <<manifest, splits, shards, missing, badAudio, runs, hist, gen, up>>

(* process_audio_file_segments, lines 416-420, with --max-cer 0.30:        *)
(* segments_df[segments_df.get("cer", 1.0) <= max_cer]                     *)
passes_max_cer(cer) == cer <= DEFAULT_MAX_CER

(* process_audio_file_segments, lines 424-428: the millisecond range of a  *)
(* segment is not empty                                                    *)
ValidRange(row) == Max0(ToMs(row.start), 0) < ToMs(row.end)

(* process_audio_file_segments, lines 403-434, for the file at the head of *)
(* the groups: <<process record, manifest file>> afterwards; with          *)
(* --num-processes above 1 and more than one segment to extract, the       *)
(* segments go to the pool                                                 *)
BeginFile(p, rows) ==
    LET f == Head(p.groups)
        segs == FileSegments(rows, f)
        kept == SelectSeq(segs, LAMBDA r : passes_max_cer(manifest[r.pos].cer))
        segment_params == SelectSeq(kept, LAMBDA r : ValidRange(manifest[r.pos]))
        invalid == SelectSeq(kept, LAMBDA r : ~ValidRange(manifest[r.pos]))
    IN IF f \in missing
       THEN LET q == save_manifest_updates(
                        [p EXCEPT !.manifest_updates_collector =
                            @ \o [i \in 1..Len(segs) |->
                                    Update(segs[i].idx, STATUS_ERROR_LOCAL_TAR_MISSING_SOURCE)]])
            IN << [q[1] EXCEPT !.groups = Tail(@)], q[2] >>
       ELSE IF kept = <<>>
       THEN << [p EXCEPT !.groups = Tail(@)], manifest >>
       ELSE IF hist.num_processes > 1 /\ Len(segment_params) > 1
       THEN << [p EXCEPT !.pc = "pool_map", !.segments_df = kept,
                         !.total_bytes_added = 0, !.segments_processed = 0,
                         !.manifest_updates_collector =
                            @ \o [i \in 1..Len(invalid) |->
                                    Update(invalid[i].idx, STATUS_ERROR_LOCAL_TAR_PROCESSING)],
                         !.pool = [segment_params |-> segment_params,
                                   coll0 |-> p.manifest_updates_collector]],
               manifest >>
       ELSE << [p EXCEPT !.pc = "segment", !.segments_df = kept,
                         !.total_bytes_added = 0, !.segments_processed = 0],
               manifest >>

(* what BeginFile lets through the CER filter *)
Gate(p, rows) ==
    LET f == Head(p.groups)
    IN IF f \in missing THEN {}
       ELSE KeysOf(SelectSeq(FileSegments(rows, f),
                             LAMBDA r : passes_max_cer(manifest[r.pos].cer)))

NoteFile(p, rows, q) ==
    [hist EXCEPT !.processed[runs] = @ \cup KeysOf(FileSegments(rows, Head(p.groups))),
                 !.gate = @ \cup Gate(p, rows),
                 !.done = IF q.pc \in {"segment", "pool_map"} THEN @
                          ELSE @ \cup {Head(p.groups)}]

(* main, lines 848-859: the next source file of a test/validation tar *)
P_FixedFile ==
    /\ pk.pc = "file_loop" /\ pk.caller = "fixed" /\ pk.groups # <<>>
    /\ LET rows == SplitSegments(pk, FixedSplits[pk.split_i])
           q == BeginFile(pk, rows)
       IN /\ pk' = q[1]
          /\ manifest' = q[2]
          /\ hist' = NoteFile(pk, rows, q[1])
    /\ UNCHANGED <<splits, shards, tmp, missing, badAudio, runs, gen, up>>

(* process_audio_file_segments, lines 465-489: one segment, serial mode *)
P_Segment ==
    /\ pk.pc = "segment"
    /\ LET r == Head(pk.segments_df)
           row == manifest[r.pos]
           start_ms == Max0(ToMs(row.start), 0)
           end_ms == ToMs(row.end)
           rest == Tail(pk.segments_df)
           next == IF rest = <<>> THEN "file_end" ELSE "segment"
           fail == [pk EXCEPT !.pc = next, !.segments_df = rest,
                        !.manifest_updates_collector =
                            Append(@, Update(r.idx, STATUS_ERROR_LOCAL_TAR_PROCESSING))]
       IN IF start_ms >= end_ms \/ row.key \in badAudio
          THEN pk' = fail /\ tmp' = tmp
          ELSE LET a == add_segment_to_tar(tmp, pk.tar_obj, r,
                            [bytes |-> SegmentBytes(start_ms, end_ms), data |-> row.key],
                            pk.manifest_updates_collector)
               IN /\ tmp' = a[1]
                  /\ pk' = [pk EXCEPT !.pc = next, !.segments_df = rest,
                                !.manifest_updates_collector = a[2],
                                !.total_bytes_added = @ + a[3],
                                !.segments_processed = IF a[3] > 0 THEN @ + 1 ELSE @]
    /\ UNCHANGED <<manifest, splits, shards, missing, badAudio, runs, hist, gen, up>>

(* process_audio_file_segments, lines 497-501, and the caller's lines      *)
(* 860-861 / 950-952                                                       *)
P_FileEnd ==
    /\ pk.pc = "file_end"
    /\ LET q == save_manifest_updates(pk)
       IN /\ manifest' = q[2]
          /\ pk' = [q[1] EXCEPT !.pc = "file_loop", !.groups = Tail(@),
                        !.active_train_tar_current_size_bytes =
                            IF pk.caller = "train" /\ pk.segments_processed > 0
                            THEN @ + pk.total_bytes_added ELSE @]
    /\ hist' = [hist EXCEPT !.done = @ \cup {Head(pk.groups)}]
    /\ UNCHANGED <<splits, shards, tmp, missing, badAudio, runs, gen, up>>

(* main, lines 846 and 863: the with-block closes the tar, os.replace moves *)
(* it to the split's final path                                            *)
P_FixedClose ==
    /\ pk.pc = "file_loop" /\ pk.caller = "fixed" /\ pk.groups = <<>>
    /\ shards' = (pk.tar_obj :> [tmp[pk.tar_obj] EXCEPT !.closed = TRUE]) @@ shards
    /\ tmp' = [n \in DOMAIN tmp \ {pk.tar_obj} |-> tmp[n]]
    /\ pk' = IF pk.split_i < Len(FixedSplits)
             THEN [pk EXCEPT !.pc = "fixed_split", !.split_i = @ + 1, !.tar_obj = NoTar]
             ELSE [pk EXCEPT !.pc = "train_init", !.tar_obj = NoTar]
    /\ UNCHANGED <<manifest, splits, missing, badAudio, runs, hist, gen, up>>

(* the indices n of the final train shards <country>-train-<n>.tar *)
TrainShardIndices(sh) == {n[2] : n \in {m \in DOMAIN sh : m[1] = "train"}}

(* main, lines 870-913: flush what test/validation left in the collector,  *)
(* then look for the highest existing train shard (index > 0) and, when it *)
(* is below the size limit, copy it to a temporary path opened for append  *)
P_TrainInit ==
    /\ pk.pc = "train_init"
    /\ LET q == save_manifest_updates(pk)
           rows == SplitSegments(pk, "train")
           found == {n \in TrainShardIndices(shards) : n > 0}
           last == IF found = {} THEN 0 ELSE CHOOSE n \in found : \A m \in found : m <= n
           reuse == found # {} /\ ArchiveBytes(shards[<<"train", last>>]) < MaxShardSize
       IN /\ manifest' = q[2]
          /\ IF rows = <<>>
             THEN pk' = PkIdle /\ tmp' = <<>>
             ELSE /\ pk' = [q[1] EXCEPT
                        !.pc = "file_loop", !.caller = "train",
                        !.groups = GroupKeys(rows),
                        !.train_shard_idx = last,
                        !.active_train_tar_obj = IF reuse THEN <<"train", last>> ELSE NoTar,
                        !.active_train_tar_current_size_bytes = 0]
                  /\ tmp' = IF reuse
                            THEN (<<"train", last>> :>
                                    [shards[<<"train", last>>] EXCEPT !.closed = FALSE]) @@ tmp
                            ELSE tmp
    /\ UNCHANGED <<splits, shards, missing, badAudio, runs, hist, gen, up>>

(* main, lines 916-948: the rollover decision for the next train file, then *)
(* process_audio_file_segments on active_train_tar_obj                     *)
P_TrainFile ==
    /\ pk.pc = "file_loop" /\ pk.caller = "train" /\ pk.groups # <<>>
    /\ LET rows == SplitSegments(pk, "train")
           estimated_total_size == Len(FileSegments(rows, Head(pk.groups))) * avg_segment_size
           roll == \/ pk.active_train_tar_obj = NoTar
                   \/ /\ pk.active_train_tar_current_size_bytes > 0
                      /\ pk.active_train_tar_current_size_bytes + estimated_total_size
                            > MaxShardSize
           closed == IF roll /\ pk.active_train_tar_obj # NoTar
                     THEN cleanup_and_close_tar(pk, tmp, shards)
                     ELSE <<pk, tmp, shards>>
           idx == IF roll /\ pk.active_train_tar_obj # NoTar
                  THEN pk.train_shard_idx + 1 ELSE pk.train_shard_idx
           p1 == IF roll
                 THEN [closed[1] EXCEPT !.train_shard_idx = idx,
                            !.active_tar_file = <<"train", idx>>,
                            !.active_tar_final_path = <<"train", idx>>,
                            !.active_train_tar_current_size_bytes = 0]
                 ELSE pk
           t1 == IF roll THEN create_tar_file(closed[2], <<"train", idx>>) ELSE tmp
           q == BeginFile([p1 EXCEPT !.tar_obj = p1.active_train_tar_obj], rows)
       IN /\ pk' = q[1]
          /\ manifest' = q[2]
          /\ tmp' = t1
          /\ shards' = closed[3]
          /\ hist' = NoteFile(pk, rows, q[1])
    /\ UNCHANGED <<splits, missing, badAudio, runs, gen, up>>

(* main, lines 954-966 *)
P_TrainEnd ==
    /\ pk.pc = "file_loop" /\ pk.caller = "train" /\ pk.groups = <<>>
    /\ LET closed == IF pk.active_train_tar_obj # NoTar
                     THEN cleanup_and_close_tar(pk, tmp, shards)
                     ELSE <<pk, tmp, shards>>
           q == save_manifest_updates(closed[1])
       IN /\ manifest' = q[2]
          /\ shards' = closed[3]
          /\ pk' = PkIdle
          /\ tmp' = <<>>
    /\ UNCHANGED <<splits, missing, badAudio, runs, hist, gen, up>>

(* where an interruption leaves the run: at a file boundary, with at least *)
(* one file flushed and at least one file of the run not started           *)
CutKind ==
    IF /\ pk.pc \in {"file_loop", "fixed_split", "train_init"}
       /\ hist.done # {}
       /\ {manifest[pk.pending_df_merged[i].pos].src :
                i \in 1..Len(pk.pending_df_merged)} \ hist.done # {}
    THEN "between" ELSE "other"

NoteCut ==
    [hist EXCEPT !.ncut = @ + 1,
                 !.cut = IF hist.ncut = 0 THEN CutKind ELSE @,
                 !.cutRun = IF hist.ncut = 0 THEN runs ELSE @,
                 !.cutDone = IF hist.ncut = 0 THEN hist.done ELSE @]

(* the process is killed (SIGKILL, power loss): nothing more is written;   *)
(* its temporary files keep their pid-suffixed names, which no later       *)
(* process opens                                                           *)
P_Crash ==
    /\ pk.pc \notin {"idle", "off"}
    /\ pk' = PkIdle
    /\ tmp' = <<>>
    /\ hist' = NoteCut
    /\ UNCHANGED <<manifest, splits, shards, missing, badAudio, runs, gen, up>>

(* the driver is inside "with Pool(...) as pool" (lines 438-457) *)
PoolPcs == {"pool_result", "pool_exit"}

(* signal_handler, lines 217-241 (SIGINT / SIGTERM) *)
P_Signal ==
    /\ pk.pc \notin {"idle", "off"} \cup PoolPcs
    /\ LET closed == cleanup_and_close_tar(pk, tmp, shards)
           df == ApplyUpdates(pk.manifest_df, pk.manifest_updates_collector)
       IN /\ shards' = closed[3]
          /\ manifest' = SavedManifest(df)
    /\ pk' = PkIdle
    /\ tmp' = <<>>
    /\ hist' = [NoteCut EXCEPT !.sig = TRUE]
    /\ UNCHANGED <<splits, missing, badAudio, runs, gen, up>>

(* signal_handler entered while main is inside the try block of lines      *)
(* 891-898 (the loop over the existing train shards, after the flush of    *)
(* lines 870-875): no tar is registered and the collector is empty, so the *)
(* handler only rewrites the manifest; the SystemExit of sys.exit is       *)
(* caught by the bare "except: pass" of line 898 and main goes on          *)
P_SignalInGlob ==
    /\ pk.pc = "train_init"
    /\ ~hist.sig
    /\ TrainShardIndices(shards) # {}
    /\ LET q == save_manifest_updates(pk)
           closed == cleanup_and_close_tar(q[1], tmp, shards)
           df == ApplyUpdates(closed[1].manifest_df, closed[1].manifest_updates_collector)
       IN /\ shards' = closed[3]
          /\ tmp' = closed[2]
          /\ manifest' = [i \in 1..Len(q[2]) |-> [q[2][i] EXCEPT !.wstatus = df[i]]]
          /\ pk' = [closed[1] EXCEPT !.manifest_df = df, !.manifest_updates_collector = <<>>]
    /\ hist' = [hist EXCEPT !.sig = TRUE]
    /\ UNCHANGED <<splits, missing, badAudio, runs, gen, up>>

NextPack ==
    \/ P_Start
    \/ P_FixedSplit
    \/ P_FixedFile
    \/ P_Segment
    \/ P_FileEnd
    \/ P_FixedClose
    \/ P_TrainInit
    \/ P_TrainFile
    \/ P_TrainEnd
    \/ P_Crash
    \/ P_Signal
    \/ P_SignalInGlob

SpecPack == InitPack /\ [][NextPack]_vars

----------------------------------------------------------------------------
(* Manifest Generator: scripts/generate_manifest.py                        *)

NumAlign == 3
MaxGenRuns == 2

TEST_SPLIT_PERCENT == 1
VALIDATION_SPLIT_PERCENT == 1

(* one hour, and 0.01 hours, in model time units *)
HourUnits == 3600 * 1000 * UnitsPerMs
Centihour == HourUnits \div 100

(* the alignment files <video>_<transcript>_aligned.json of the country;   *)
(* file f names source audio path f                                        *)
AlignFiles == 1..NumAlign

(* the "segments" list of an alignment file *)
Seg(start, end) == [start |-> start, end |-> end, cer |-> 5]
AlignShapes ==
    { << Seg(0, Centihour \div 2) >>,
      << Seg(0, Centihour), Seg(Centihour, 3 * Centihour) >>,
      << Seg(0, Centihour), Seg(1, Centihour + 1) >>,
      << Seg(Centihour, Centihour) >> }

(* --max-files: None or a number *)
MaxFilesArgs == { <<>>, <<1>> }

(* the orders in which Path.glob can list a set of files *)
Perms(S) ==
    { s \in [1..Cardinality(S) -> S] : \A i, j \in 1..Cardinality(S) : s[i] = s[j] => i = j }

GenIdle(files, shape) ==
    [ pc |-> "idle", files |-> files, shape |-> shape,
      max_files |-> <<>>, split_assignments |-> <<>>, nruns |-> 0,
      pre |-> [keys |-> <<>>, srcs |-> <<>>],
      last |-> <<>>, same |-> FALSE ]

InitGen ==
    /\ manifest = <<>>
    /\ splits = <<>>
    /\ shards = <<>>
    /\ tmp = <<>>
    /\ missing = {}
    /\ badAudio = {}
    /\ pk = [PkIdle EXCEPT !.pc = "off"]
    /\ runs = 0
    /\ hist = HistInit
    /\ up = UpOff
    /\ \E files \in SUBSET AlignFiles, shape \in [AlignFiles -> AlignShapes] :
          gen = GenIdle(files, shape)

(* dict(zip(split_df['source_audio_path'], split_df['split'])) *)
LoadedSplits == [i \in 1..Len(splits) |-> [src |-> splits[i].src, split |-> splits[i].split]]

(* split_assignments.get(audio_path, default): the last entry of a key wins *)
DictGet(d, k, default) ==
    LET m == SelectSeq(d, LAMBDA r : r.src = k)
    IN IF m = <<>> THEN default ELSE m[Len(m)].split

(* create_split_assignments, lines 241-249: the summed positive durations  *)
(* of a file's segments                                                    *)
Duration(f) ==
    SumSeq([i \in 1..Len(gen.shape[f]) |->
        IF gen.shape[f][i].end - gen.shape[f][i].start > 0
        THEN gen.shape[f][i].end - gen.shape[f][i].start ELSE 0])

(* the paths as the directory listing gave them, not sorted *)
sorted_paths_unsorted(order) == order

(* sorted(audio_info.keys(), key=duration_hours, reverse=True): stable *)
sorted_paths(order) ==
    LET n == Len(order)
        rank(i) == 1 + Cardinality({ j \in 1..n :
                        \/ Duration(order[j]) > Duration(order[i])
                        \/ Duration(order[j]) = Duration(order[i]) /\ j < i })
    IN [p \in 1..n |-> order[CHOOSE i \in 1..n : rank(i) = p]]

(* create_split_assignments, lines 276-290; hours are compared scaled by   *)
(* 100 * HourUnits                                                         *)
RECURSIVE AssignSplits(_, _, _, _)
AssignSplits(paths, test_hours, val_hours, total) ==
    IF paths = <<>> THEN <<>>
    ELSE LET path == Head(paths)
             min_test_hours == Max0(HourUnits, total * TEST_SPLIT_PERCENT)
             min_val_hours == Max0(HourUnits, total * VALIDATION_SPLIT_PERCENT)
         IN IF 100 * test_hours < min_test_hours
            THEN << [src |-> path, split |-> "test"] >>
                    \o AssignSplits(Tail(paths), test_hours + Duration(path), val_hours, total)
            ELSE IF 100 * val_hours < min_val_hours
            THEN << [src |-> path, split |-> "validation"] >>
                    \o AssignSplits(Tail(paths), test_hours, val_hours + Duration(path), total)
            ELSE << [src |-> path, split |-> "train"] >>
                    \o AssignSplits(Tail(paths), test_hours, val_hours, total)

(* create_split_assignments: <<splits_dict, split file>> afterwards; the   *)
(* file is loaded when it exists and reads, else computed over the         *)
(* alignment files as listed and written                                   *)
create_split_assignments(order, load_ok) ==
    IF splits # <<>> /\ load_ok THEN <<LoadedSplits, splits>>
    ELSE IF order = <<>> THEN << <<>>, splits >>
    ELSE LET d == AssignSplits(sorted_paths(order), 0, 0,
                               SumSeq([i \in 1..Len(order) |-> Duration(order[i])]))
         IN << d, [i \in 1..Len(d) |-> SplitRow(d[i].src, d[i].split)] >>

(* process_alignment_file, lines 130-178: the records of the segments with *)
(* a positive duration and a key not seen yet                              *)
RECURSIVE SegmentRecords(_, _, _)
SegmentRecords(f, segs, existing_keys) ==
    IF segs = <<>> THEN <<>>
    ELSE LET s == Head(segs)
             key == generate_segment_key(f, s.start, s.end)
         IN IF s.end - s.start <= 0 \/ key \in existing_keys
            THEN SegmentRecords(f, Tail(segs), existing_keys)
            ELSE << [ key |-> key, src |-> f, start |-> s.start, end |-> s.end,
                      cer |-> s.cer, status |-> "pending", split |-> "",
                      wstatus |-> "", error_message |-> "" ] >>
                    \o SegmentRecords(f, Tail(segs), existing_keys \cup {key})

(* process_alignment_file without its restartability check and without the *)
(* duplicate-key check against the loaded manifest                         *)
process_alignment_file_norestart(f, existing_keys, existing_audio_paths_for_country) ==
    SegmentRecords(f, gen.shape[f], {})

(* process_alignment_file: nothing for a source audio path that is already *)
(* in the manifest or was processed earlier in this run                    *)
process_alignment_file(f, existing_keys, existing_audio_paths_for_country) ==
    IF f \in existing_audio_paths_for_country THEN <<>>
    ELSE SegmentRecords(f, gen.shape[f], existing_keys)

(* process_country, lines 383-408: the loop over the alignment files with  *)
(* the --max-files break; the new records                                  *)
RECURSIVE ProcessFiles(_, _, _, _, _)
ProcessFiles(json_files, existing_keys, existing_paths, this_run, count) ==
    IF json_files = <<>> THEN <<>>
    ELSE LET f == Head(json_files)
             new_records == process_alignment_file(f, existing_keys,
                                                   existing_paths \cup this_run)
             assigned == [i \in 1..Len(new_records) |->
                            [new_records[i] EXCEPT
                                !.split = DictGet(gen.split_assignments, f, "train")]]
             counted == new_records # <<>> /\ f \notin existing_paths /\ f \notin this_run
             count1 == IF counted THEN count + 1 ELSE count
         IN assigned \o
            (IF gen.max_files # <<>> /\ count1 >= gen.max_files[1] THEN <<>>
             ELSE ProcessFiles(Tail(json_files),
                               existing_keys \cup {new_records[i].key : i \in 1..Len(new_records)},
                               existing_paths,
                               IF counted THEN this_run \cup {f} ELSE this_run,
                               count1))

(* process_country, lines 422-435: rows without a split get one, and the   *)
(* frame is cut to MANIFEST_COLUMNS, which has no webdataset_status        *)
ManifestColumns(rows) ==
    [i \in 1..Len(rows) |->
        [rows[i] EXCEPT !.wstatus = "",
                        !.split = IF @ = ""
                                  THEN DictGet(gen.split_assignments, rows[i].src, "train")
                                  ELSE @]]

(* a new alignment file appears in the alignment output directory *)
G_AddFile ==
    /\ gen.pc = "idle"
    /\ \E f \in AlignFiles \ gen.files : gen' = [gen EXCEPT !.files = @ \cup {f}]
    /\ UNCHANGED <<manifest, splits, shards, tmp, missing, badAudio, pk, runs, hist, up>>

(* process_country, line 341: create_split_assignments *)
G_Splits ==
    /\ gen.pc = "idle"
    /\ gen.nruns < MaxGenRuns
    /\ \E max_files \in MaxFilesArgs, load_ok \in BOOLEAN, order \in Perms(gen.files) :
          LET r == create_split_assignments(order, load_ok)
          IN /\ splits' = r[2]
             /\ gen' = [gen EXCEPT
                    !.pc = "manifest", !.max_files = max_files,
                    !.split_assignments = r[1],
                    !.pre = [keys |-> [i \in 1..Len(manifest) |-> manifest[i].key],
                             srcs |-> [i \in 1..Len(splits) |-> splits[i].src]]]
    /\ UNCHANGED <<manifest, shards, tmp, missing, badAudio, pk, runs, hist, up>>

(* process_country, lines 343-442 *)
G_Manifest ==
    /\ gen.pc = "manifest"
    /\ \E load_ok \in BOOLEAN, order \in Perms(gen.files) :
          LET all_records == IF manifest # <<>> /\ load_ok THEN manifest ELSE <<>>
              all_new_records ==
                  ProcessFiles(order,
                               {all_records[i].key : i \in 1..Len(all_records)},
                               {all_records[i].src : i \in 1..Len(all_records)},
                               {}, 0)
          IN manifest' = IF all_records \o all_new_records = <<>> THEN manifest
                         ELSE ManifestColumns(all_records \o all_new_records)
    /\ gen' = [gen EXCEPT
            !.pc = "idle", !.nruns = @ + 1,
            !.last = [max_files |-> gen.max_files, files |-> gen.files],
            !.same = gen.last = [max_files |-> gen.max_files, files |-> gen.files]]
    /\ UNCHANGED <<splits, shards, tmp, missing, badAudio, pk, runs, hist, up>>

NextGen ==
    \/ G_AddFile
    \/ G_Splits
    \/ G_Manifest

SpecGen == InitGen /\ [][NextGen]_vars

----------------------------------------------------------------------------
(* Uploader: scripts/batch_upload.py                                       *)
(* Sizes (size_mb, memory, --max-split-size-gb * 1024) are in units of     *)
(* 100 MB; limits are kept multiplied by 100 so that the percentage of the *)
(* available memory stays an integer.                                      *)

NumUpFiles == 3

MaxUpRuns == 1

PUSH_RETRIES == 3
PUSH_RETRY_DELAY == 5
DEFAULT_RAM_PERCENTAGE_LIMIT == 70

UpFiles == 1..NumUpFiles

(* the inputs of an Uploader run *)
CerProfiles ==
    { [f \in UpFiles |-> 5],
      [f \in UpFiles |-> CASE f % 3 = 1 -> 5
                           [] f % 3 = 2 -> DEFAULT_MAX_CER
                           [] OTHER -> DEFAULT_MAX_CER + 15],
      [f \in UpFiles |-> IF f = 1 THEN DEFAULT_MAX_CER + 15 ELSE 5] }

SizeProfiles ==
    { [f \in UpFiles |-> 1],
      [f \in UpFiles |-> IF f = 1 THEN 3 ELSE 4],
      [f \in UpFiles |-> 4 - (f % 3)] }

SplitProfiles ==
    { [f \in UpFiles |-> "train"],
      [f \in UpFiles |-> IF f = 1 THEN "test" ELSE "train"],
      [f \in UpFiles |-> IF f = 1 THEN "test" ELSE IF f = 2 THEN "validation" ELSE "train"] }

(* psutil's available memory and --max-split-size-gb (None or a size) *)
UpArgs ==
    { [available_ram_mb |-> 10, max_split_limit_mb |-> <<>>],
      [available_ram_mb |-> 10, max_split_limit_mb |-> <<5>>],
      [available_ram_mb |-> 5, max_split_limit_mb |-> <<5>>] }

(* how many of the inputs differ from the plain case: CER 0.05 throughout, *)
(* files of 100 MB, all files in train, 1000 MB of memory and no           *)
(* --max-split-size-gb, every source file present and decodable            *)
UpDeviations(w) ==
    (IF w.cer = [f \in UpFiles |-> 5] THEN 0 ELSE 1)
    + (IF w.size = [f \in UpFiles |-> 1] THEN 0 ELSE 1)
    + (IF w.sp = [f \in UpFiles |-> "train"] THEN 0 ELSE 1)
    + (IF w.args = [available_ram_mb |-> 10, max_split_limit_mb |-> <<>>] THEN 0 ELSE 1)
    + Cardinality(w.miss) + Cardinality(w.corrupt)

MaxUpDeviations == 2

UpWorlds ==
    { w \in [ cer : CerProfiles, size : SizeProfiles, sp : SplitProfiles, args : UpArgs,
              miss : SUBSET UpFiles, corrupt : SUBSET UpFiles ] :
        /\ Cardinality(w.miss) + Cardinality(w.corrupt) <= 1
        /\ UpDeviations(w) <= MaxUpDeviations }

UpIdle(w) ==
    [ pc |-> "idle", args |-> w.args, corrupt |-> w.corrupt,
      splits_df |-> <<>>, effective_batch_limit_mb |-> 0,
      hub |-> <<>>, batches |-> <<>>, examined |-> {}, gate |-> {},
      nruns |-> 0, halt |-> "none", exit_code |-> <<>>, last |-> <<>>,
      wfailed |-> FALSE, late |-> FALSE ]

InitUp ==
    \E w \in UpWorlds :
        /\ manifest = [f \in UpFiles |->
                ManifestRow(f, 1, [cer |-> w.cer[f], timeOK |-> TRUE, audioOK |-> TRUE], w.sp[f])]
        /\ splits = [f \in UpFiles |-> [SplitRow(f, w.sp[f]) EXCEPT !.size_mb = w.size[f]]]
        /\ shards = <<>>
        /\ tmp = <<>>
        /\ missing = w.miss
        /\ badAudio = {}
        /\ pk = [PkIdle EXCEPT !.pc = "off"]
        /\ runs = 0
        /\ hist = HistInit
        /\ gen = GenOff
        /\ up = UpIdle(w)

(* the CER test with >= in place of > *)
cer_too_high_strict(cer) == cer >= DEFAULT_MAX_CER

(* process_audio_files_for_batch, lines 206-211 *)
cer_too_high(cer) == cer > DEFAULT_MAX_CER

(* batch_failed_keys_dict entries: the keys with one reason *)
Failed(keys, reason) == {<<k, reason>> : k \in keys}

(* process_audio_files_for_batch: the records, the failed keys with their  *)
(* reasons and the keys that reached the CER check; raised when loading a  *)
(* file raised MemoryError (failed then holds what the function's local    *)
(* dict held at the raise). cached: the files are in the cache already     *)
(* (train).                                                                *)
RECURSIVE process_audio_files_for_batch(_, _, _, _)
process_audio_files_for_batch(audio_file_paths, segments_df, cached, mem) ==
    IF audio_file_paths = <<>>
    THEN [raised |-> FALSE, records |-> <<>>, failed |-> {}, examined |-> {}]
    ELSE LET f == Head(audio_file_paths)
             mine == SelectSeq(segments_df, LAMBDA r : r.src = f)
             keys == {mine[i].key : i \in 1..Len(mine)}
             good == SelectSeq(mine, LAMBDA r : ~cer_too_high(r.cer))
             rest == process_audio_files_for_batch(Tail(audio_file_paths), segments_df, cached, mem)
         IN IF ~cached /\ f \notin missing /\ f \in mem
            THEN [raised |-> TRUE, records |-> <<>>,
                  failed |-> Failed(keys, "MemoryError during audio load"), examined |-> {}]
            ELSE IF ~cached /\ (f \in missing \/ f \in up.corrupt)
            THEN [rest EXCEPT !.failed = @ \cup
                    Failed(keys, IF f \in missing THEN "Source audio file not found"
                                 ELSE "Could not decode audio file")]
            ELSE IF rest.raised
            THEN [rest EXCEPT !.failed = @ \cup
                    Failed(keys \ {good[i].key : i \in 1..Len(good)}, "CER too high")]
            ELSE [rest EXCEPT
                    !.records = [i \in 1..Len(good) |-> [key |-> good[i].key, cer |-> good[i].cer]] \o @,
                    !.failed = @ \cup
                        Failed(keys \ {good[i].key : i \in 1..Len(good)}, "CER too high"),
                    !.examined = @ \cup keys]

Event(ev, secs) == [ev |-> ev, secs |-> secs]

(* the retry loop that also sleeps after the last failed attempt *)
RECURSIVE push_to_hub_attempts_sleep_always(_, _)
push_to_hub_attempts_sleep_always(outcomes, attempt) ==
    IF attempt >= PUSH_RETRIES THEN [ok |-> FALSE, trace |-> <<>>]
    ELSE IF outcomes[attempt + 1] THEN [ok |-> TRUE, trace |-> <<Event("push_ok", 0)>>]
    ELSE LET r == push_to_hub_attempts_sleep_always(outcomes, attempt + 1)
         IN [r EXCEPT !.trace = <<Event("push_failed", 0), Event("sleep", PUSH_RETRY_DELAY)>> \o @]

(* push_to_hub_with_retries, lines 242-259: the loop from the given        *)
(* attempt (0-based) on; outcomes[n] tells whether the n-th call of        *)
(* dataset.push_to_hub would succeed                                       *)
RECURSIVE push_to_hub_attempts(_, _)
push_to_hub_attempts(outcomes, attempt) ==
    IF attempt >= PUSH_RETRIES THEN [ok |-> FALSE, trace |-> <<>>]
    ELSE IF outcomes[attempt + 1] THEN [ok |-> TRUE, trace |-> <<Event("push_ok", 0)>>]
    ELSE IF attempt < PUSH_RETRIES - 1
    THEN LET r == push_to_hub_attempts(outcomes, attempt + 1)
         IN [r EXCEPT !.trace = <<Event("push_failed", 0), Event("sleep", PUSH_RETRY_DELAY)>> \o @]
    ELSE [ok |-> FALSE, trace |-> <<Event("push_failed", 0)>>]

(* push_to_hub_with_retries: TRUE when one of the attempts succeeds *)
push_to_hub_with_retries(outcomes) == push_to_hub_attempts(outcomes, 0).ok

(* utils.update_manifest_statuses: rows are found by key; status_updates   *)
(* is a set of <<key, status, error message>>                              *)
update_manifest_statuses(m, status_updates) ==
    [i \in 1..Len(m) |->
        IF \E s \in status_updates : s[1] = m[i].key
        THEN LET s == CHOOSE s \in status_updates : s[1] = m[i].key
             IN [m[i] EXCEPT !.status = s[2], !.error_message = s[3]]
        ELSE m[i]]

(* process_and_push_batch: the manifest file, the Uploader and the         *)
(* returned success flag afterwards; write_ok tells whether                *)
(* update_manifest_file succeeds                                           *)
process_and_push_batch(m, u, segment_batch_df, paths, hf_split_name, cached, mem, outcomes, write_ok) ==
    IF segment_batch_df = <<>> THEN [manifest |-> m, up |-> u, success |-> TRUE]
    ELSE LET r == process_audio_files_for_batch(paths, segment_batch_df, cached, mem)
             keys == {r.records[i].key : i \in 1..Len(r.records)}
             p == push_to_hub_attempts(outcomes, 0)
             pushed == r.records # <<>> /\ push_to_hub_with_retries(outcomes)
             status_updates ==
                 {<<f[1], "error", f[2]>> : f \in r.failed}
                 \cup {<<k, IF pushed THEN "uploaded" ELSE "error",
                            IF pushed THEN "" ELSE "Failed during Hugging Face Hub upload">> :
                        k \in keys}
             success == status_updates = {} \/ write_ok
             batch == [ split |-> hf_split_name,
                        keys |-> {segment_batch_df[i].key : i \in 1..Len(segment_batch_df)},
                        failed |-> r.failed, records |-> keys, raised |-> r.raised,
                        ok |-> pushed,
                        trace |-> IF r.raised \/ r.records = <<>> THEN <<>> ELSE p.trace,
                        success |-> r.raised \/ success ]
         IN IF r.raised
            THEN [manifest |-> m, up |-> [u EXCEPT !.last = batch], success |-> TRUE]
            ELSE [ manifest |-> IF write_ok THEN update_manifest_statuses(m, status_updates)
                                ELSE m,
                   up |-> [u EXCEPT
                        !.hub = IF pushed
                                THEN Append(@, [split |-> hf_split_name, records |-> r.records])
                                ELSE @,
                        !.examined = @ \cup r.examined,
                        !.gate = @ \cup keys,
                        !.last = batch,
                        !.wfailed = @ \/ ~success,
                        !.late = @ \/ (u.wfailed /\ r.records # <<>>)],
                   success |-> success ]

PendingOf(m, paths) == SelectSeq(m, LAMBDA r : r.src \in paths /\ r.status = "pending")

(* list(df['source_audio_path'].unique()): in order of first appearance *)
RECURSIVE Unique(_)
Unique(s) ==
    IF s = <<>> THEN <<>>
    ELSE LET init == Unique(SubSeq(s, 1, Len(s) - 1))
         IN IF s[Len(s)] \in Range(init) THEN init ELSE Append(init, s[Len(s)])

(* what the calls of dataset.push_to_hub would do: the hub is down for the *)
(* first calls and accepts every call from some call on, or none          *)
PushOutcomes ==
    { o \in [1..PUSH_RETRIES -> BOOLEAN] :
        \A i, j \in 1..PUSH_RETRIES : (i < j /\ o[i]) => o[j] }

(* the files whose load raises MemoryError at this moment *)
MemoryErrors == {{}} \cup {{f} : f \in UpFiles}

(* main returns: the process ends, and a return from main gives the        *)
(* interpreter's exit code 0                                               *)
Exit(u, reason) == [u EXCEPT !.pc = "done", !.halt = reason, !.exit_code = <<0>>]

(* main, lines 564-572; load_ok: load_manifest returns a table *)
U_Start ==
    /\ up.pc \in {"idle", "done"}
    /\ up.nruns < MaxUpRuns
    /\ \E load_ok \in BOOLEAN :
          LET u == [up EXCEPT !.nruns = @ + 1, !.halt = "none", !.exit_code = <<>>,
                              !.wfailed = FALSE, !.late = FALSE, !.last = <<>>]
          IN up' = IF ~load_ok THEN Exit(u, "manifest_load")
                   ELSE IF manifest = <<>> \/ splits = <<>> THEN Exit(u, "none")
                   ELSE [u EXCEPT !.pc = "test", !.splits_df = splits]
    /\ UNCHANGED <<manifest, splits, shards, tmp, missing, badAudio, pk, runs, hist, gen>>

(* process_fixed_split for 'test' or 'validation', lines 349-376 *)
FixedSplitBatch(mem, outcomes, write_ok) ==
    LET split_audio_paths ==
            {up.splits_df[i].src :
                i \in {j \in 1..Len(up.splits_df) : up.splits_df[j].split = up.pc}}
        pending_segments_df == PendingOf(manifest, split_audio_paths)
    IN process_and_push_batch(manifest, up, pending_segments_df,
            Unique([i \in 1..Len(pending_segments_df) |-> pending_segments_df[i].src]),
            <<up.pc>>, FALSE, mem, outcomes, write_ok)

(* process_fixed_split for 'test' or 'validation', and main's reload of    *)
(* the manifest, lines 575-586                                             *)
U_FixedSplit ==
    /\ up.pc \in {"test", "validation"}
    /\ \E mem \in MemoryErrors, outcomes \in PushOutcomes, write_ok \in BOOLEAN,
          load_ok \in BOOLEAN :
          LET r == FixedSplitBatch(mem, outcomes, write_ok)
          IN /\ manifest' = r.manifest
             /\ up' = IF ~r.success THEN Exit(r.up, "manifest_update")
                      ELSE IF ~load_ok THEN Exit(r.up, "manifest_reload")
                      ELSE [r.up EXCEPT
                                !.pc = IF up.pc = "test" THEN "validation" ELSE "train_start"]
    /\ UNCHANGED <<splits, shards, tmp, missing, badAudio, pk, runs, hist, gen>>

Min0(a, b) == IF a <= b THEN a ELSE b

(* process_train_subsets, lines 389-397, times 100 *)
effective_batch_limit(args) ==
    LET ram_limit_mb == args.available_ram_mb * DEFAULT_RAM_PERCENTAGE_LIMIT
    IN IF args.max_split_limit_mb # <<>> /\ args.max_split_limit_mb[1] # 0
       THEN Min0(ram_limit_mb, 100 * args.max_split_limit_mb[1])
       ELSE ram_limit_mb

U_TrainStart ==
    /\ up.pc = "train_start"
    /\ up' = [up EXCEPT !.pc = "train",
                        !.effective_batch_limit_mb = effective_batch_limit(up.args)]
    /\ UNCHANGED <<manifest, splits, shards, tmp, missing, badAudio, pk, runs, hist, gen>>

(* the accumulation loop without the size test: every file that loads is   *)
(* taken                                                                   *)
RECURSIVE BuildBatchUnlimited(_, _, _, _)
BuildBatchUnlimited(rows, size, limit, mem) ==
    IF rows = <<>> THEN [batch |-> <<>>, skipped |-> {}, errored |-> <<>>]
    ELSE LET r == Head(rows)
         IN IF r.src \in mem /\ r.src \notin missing
            THEN [BuildBatchUnlimited(Tail(rows), size, limit, mem) EXCEPT
                        !.skipped = @ \cup {r.src}]
            ELSE IF r.src \in missing \/ r.src \in up.corrupt
            THEN [BuildBatchUnlimited(Tail(rows), size, limit, mem) EXCEPT
                        !.errored = <<r.src>> \o @]
            ELSE [BuildBatchUnlimited(Tail(rows), size + r.size_mb, limit, mem) EXCEPT
                        !.batch = <<r.src>> \o @]

(* the accumulation loop leaving the loop at a file whose pre-load raised   *)
(* an error other than MemoryError                                         *)
RECURSIVE BuildBatchErrorBreaks(_, _, _, _)
BuildBatchErrorBreaks(rows, size, limit, mem) ==
    IF rows = <<>> THEN [batch |-> <<>>, skipped |-> {}, errored |-> <<>>]
    ELSE LET r == Head(rows)
         IN IF 100 * (size + r.size_mb) <= limit
            THEN IF r.src \in mem /\ r.src \notin missing
                 THEN [BuildBatchErrorBreaks(Tail(rows), size, limit, mem) EXCEPT
                            !.skipped = @ \cup {r.src}]
                 ELSE IF r.src \in missing \/ r.src \in up.corrupt
                 THEN [batch |-> <<>>, skipped |-> {}, errored |-> <<r.src>>]
                 ELSE [BuildBatchErrorBreaks(Tail(rows), size + r.size_mb, limit, mem) EXCEPT
                            !.batch = <<r.src>> \o @]
            ELSE [batch |-> <<>>, skipped |-> {}, errored |-> <<>>]

(* process_train_subsets, lines 431-467: the files taken into the batch,   *)
(* those skipped for MemoryError and those whose pre-load raised           *)
RECURSIVE BuildBatch(_, _, _, _)
BuildBatch(rows, size, limit, mem) ==
    IF rows = <<>> THEN [batch |-> <<>>, skipped |-> {}, errored |-> <<>>]
    ELSE LET r == Head(rows)
         IN IF 100 * (size + r.size_mb) <= limit
            THEN IF r.src \in mem /\ r.src \notin missing
                 THEN [BuildBatch(Tail(rows), size, limit, mem) EXCEPT
                            !.skipped = @ \cup {r.src}]
                 ELSE IF r.src \in missing \/ r.src \in up.corrupt
                 THEN [BuildBatch(Tail(rows), size, limit, mem) EXCEPT
                            !.errored = <<r.src>> \o @]
                 ELSE [BuildBatch(Tail(rows), size + r.size_mb, limit, mem) EXCEPT
                            !.batch = <<r.src>> \o @]
            ELSE [batch |-> <<>>, skipped |-> {}, errored |-> <<>>]

(* the subset id max(existing) + 1 replaced by the constant 1 *)
next_subset_id_restart(df) == 1

(* splits_df[split == 'train']['subset_id'].max(), then lines 418-419 *)
next_subset_id(df) ==
    LET ids == {df[i].subset_id[1] :
                    i \in {j \in 1..Len(df) : df[j].split = "train" /\ df[j].subset_id # <<>>}}
    IN IF ids = {} THEN 1 ELSE (CHOOSE n \in ids : \A m \in ids : m <= n) + 1

(* the subset ids are not written to the table *)
SetSubsetNothing(df, paths, id) == df

SetSubset(df, paths, id) ==
    [i \in 1..Len(df) |-> IF df[i].src \in paths THEN [df[i] EXCEPT !.subset_id = <<id>>] ELSE df[i]]

(* the orders sort_values(by='size_mb') can give the pending files *)
SizeOrders(rows) ==
    { [i \in 1..Len(rows) |-> rows[p[i]]] :
        p \in { q \in Perms(1..Len(rows)) :
                  \A i, j \in 1..Len(rows) : i < j => rows[q[i]].size_mb <= rows[q[j]].size_mb } }

(* process_train_subsets, lines 409-531: one turn of the while loop after  *)
(* the reload of the manifest; write_ok tells whether update_manifest_file *)
(* succeeds during this turn (lines 459 and 329)                           *)
TrainTurn(sorted, mem, outcomes, write_ok) ==
    LET id == next_subset_id(up.splits_df)
        b == BuildBatch(sorted, 0, up.effective_batch_limit_mb, mem)
        error_keys == {manifest[i].key :
                        i \in {j \in 1..Len(manifest) : manifest[j].src \in Range(b.errored)}}
        m1 == IF write_ok
              THEN update_manifest_statuses(manifest,
                        {<<k, "error", "Pre-load failed">> : k \in error_keys})
              ELSE manifest
        u1 == [up EXCEPT !.wfailed = @ \/ (error_keys # {} /\ ~write_ok)]
        df1 == SetSubset(up.splits_df, Range(b.errored), -99)
        segments_for_subset_df == PendingOf(manifest, Range(b.batch))
        r == process_and_push_batch(m1, u1, segments_for_subset_df, b.batch,
                                    <<"train", id>>, TRUE, mem, outcomes, write_ok)
        df2 == SetSubset(df1, Range(b.batch), id)
        note == Append(up.batches,
                    [sorted |-> sorted, batch |-> b.batch, id |-> id,
                     failed |-> b.skipped \cup Range(b.errored), skipped |-> b.skipped,
                     limit |-> up.effective_batch_limit_mb, args |-> up.args])
        perm_skip == /\ b.skipped = {}
                     /\ Len(sorted) = 1
                     /\ sorted[1].src \in b.skipped
        df3 == SetSubset(df1, IF perm_skip THEN {sorted[1].src} ELSE {}, -100)
    IN IF b.batch = <<>>
       THEN [ manifest |-> m1,
              splits |-> IF b.errored = <<>> /\ ~perm_skip THEN splits ELSE df3,
              up |-> IF perm_skip
                     THEN [u1 EXCEPT !.splits_df = df3, !.batches = note]
                     ELSE [Exit(u1, "none") EXCEPT !.splits_df = df3, !.batches = note] ]
       ELSE IF ~r.success
       THEN [ manifest |-> r.manifest,
              splits |-> IF b.errored = <<>> THEN splits ELSE df1,
              up |-> [Exit(r.up, "manifest_update") EXCEPT !.splits_df = df1,
                            !.batches = note,
                            !.late = @ \/ up.wfailed] ]
       ELSE [ manifest |-> r.manifest,
              splits |-> df2,
              up |-> [r.up EXCEPT !.splits_df = df2, !.batches = note,
                            !.late = @ \/ up.wfailed] ]

(* process_train_subsets, lines 401-531: one turn of the while loop *)
U_TrainSubset ==
    /\ up.pc = "train"
    /\ LET pending == SelectSeq(up.splits_df,
                                LAMBDA r : r.split = "train" /\ r.subset_id = <<>>)
       IN \/ /\ up' = Exit(up, "manifest_reload")
             /\ UNCHANGED <<manifest, splits>>
          \/ /\ pending = <<>>
             /\ up' = Exit(up, "none")
             /\ UNCHANGED <<manifest, splits>>
          \/ /\ pending # <<>>
             /\ \E sorted \in SizeOrders(pending), mem \in MemoryErrors,
                   outcomes \in PushOutcomes, write_ok \in BOOLEAN :
                  LET t == TrainTurn(sorted, mem, outcomes, write_ok)
                  IN /\ manifest' = t.manifest
                     /\ splits' = t.splits
                     /\ up' = t.up
    /\ UNCHANGED <<shards, tmp, missing, badAudio, pk, runs, hist, gen>>

(* the Uploader is killed while utils.update_manifest_statuses writes the  *)
(* manifest (df.to_csv(csv_path), line 151, truncates the file and writes  *)
(* it row by row): the manifest path holds the first rows of the new table *)
U_Crash ==
    /\ up.pc \in {"test", "validation"}
    /\ \E mem \in MemoryErrors, outcomes \in PushOutcomes :
          LET r == FixedSplitBatch(mem, outcomes, TRUE)
          IN /\ r.manifest # manifest
             /\ \E n \in 0..(Len(r.manifest) - 1) : manifest' = SubSeq(r.manifest, 1, n)
             /\ up' = [r.up EXCEPT !.pc = "done", !.halt = "killed", !.exit_code = <<137>>,
                                   !.last = [@ EXCEPT !.success = FALSE]]
    /\ UNCHANGED <<splits, shards, tmp, missing, badAudio, pk, runs, hist, gen>>

NextUp ==
    \/ U_Start
    \/ U_FixedSplit
    \/ U_TrainStart
    \/ U_TrainSubset
    \/ U_Crash

SpecUp == InitUp /\ [][NextUp]_vars

(* the Packer and the Uploader, each over its own inputs *)
InitPipeline == InitPack \/ InitUp
NextPipeline == NextPack \/ NextUp
SpecPipeline == InitPipeline /\ [][NextPipeline]_vars

----------------------------------------------------------------------------
(* Observations on the Packer's files *)

(* verify_tar_contents: the keys that have both a .json and an audio entry *)
verify_tar_contents(a) ==
    { e.key : e \in { x \in Range(a.entries) : x.ext = "json" } }
        \cap { e.key : e \in { x \in Range(a.entries) : x.ext = "opus" } }

FinalKeys == UNION { verify_tar_contents(shards[n]) : n \in DOMAIN shards }

RowPending(row) == row.wstatus \in {"", STATUS_PENDING_LOCAL_TAR}

CompletedKeys == { manifest[i].key :
                     i \in { j \in 1..Len(manifest) :
                               manifest[j].wstatus = STATUS_COMPLETED_LOCAL_TAR } }

(* C2: no segment key has both its entries in a finalized shard while its  *)
(* manifest status is pending                                              *)
C2_NoPendingKeyInFinalShard ==
    \A i \in 1..Len(manifest) :
        RowPending(manifest[i]) => manifest[i].key \notin FinalKeys

(* the split table's split of a source file ("NaN" when it has no row) *)
SplitOf(f) ==
    LET m == SelectSeq(splits, LAMBDA r : r.src = f)
    IN IF m = <<>> THEN "NaN" ELSE m[1].split

(* a segment the Packer can pack: its file exists, its CER passes, its     *)
(* range is non-empty in milliseconds and its audio decodes                *)
Packable(row) ==
    /\ row.src \notin missing
    /\ row.cer <= DEFAULT_MAX_CER
    /\ Max0(ToMs(row.start), 0) < ToMs(row.end)
    /\ row.key \notin badAudio

Rows == {manifest[i] : i \in 1..Len(manifest)}
MappedRows == {r \in Rows : SplitOf(r.src) # "NaN"}

(* the completed set of one uninterrupted run over the initial files *)
UninterruptedCompleted ==
    { r.key : r \in { x \in MappedRows :
                        /\ Packable(x)
                        /\ SplitOf(x.src) = "train" => hist.reuse } }

RunFinished(n) == pk.pc = "idle" /\ runs = n /\ hist.ncut = 0

(* the entries of the final shards of a split *)
SplitEntries(sp) ==
    Flatten([i \in 1..Len(SortedSeq(TrainShardIndices(shards) \cup {0})) |->
        LET n == <<sp, SortedSeq(TrainShardIndices(shards) \cup {0})[i]>>
        IN IF n \in DOMAIN shards THEN shards[n].entries ELSE <<>>])

CountEntries(es, key, ext) ==
    Cardinality({i \in 1..Len(es) : es[i].key = key /\ es[i].ext = ext})

(* C1: terminated after the flush of file A and before file B starts, the  *)
(* manifest has A's packable segments completed and B's segments pending;  *)
(* the next run processes exactly the segments of the files not yet done,  *)
(* and afterwards the completed set is that of an uninterrupted run        *)
C1_ResumeAfterCutBetweenFiles ==
    (pk.pc = "idle" /\ hist.cut = "between" /\ hist.cutRun = 1 /\ hist.ncut = 1) =>
        /\ \A r \in MappedRows :
              /\ (r.src \in hist.cutDone /\ Packable(r) /\ r.key \in UninterruptedCompleted)
                    => r.wstatus = STATUS_COMPLETED_LOCAL_TAR
              /\ (r.src \notin hist.cutDone /\ runs = 1) => RowPending(r)
        /\ runs = 2 =>
              /\ hist.processed[2] \cap {r.key : r \in {x \in Rows : x.src \in hist.cutDone /\ ~RowPending(x)}} = {}
              /\ {r.key : r \in {x \in MappedRows : x.src \notin hist.cutDone}} \subseteq hist.processed[2]
              /\ CompletedKeys = UninterruptedCompleted

(* C6: after an uninterrupted run every packable segment of a mapped file  *)
(* is completed and has one metadata and one audio entry under its key in  *)
(* the final shards of its split                                           *)
C6_UninterruptedRunPacksEverySegment ==
    RunFinished(1) =>
        \A r \in MappedRows :
            Packable(r) =>
                /\ r.wstatus = STATUS_COMPLETED_LOCAL_TAR
                /\ CountEntries(SplitEntries(SplitOf(r.src)), r.key, "json") = 1
                /\ CountEntries(SplitEntries(SplitOf(r.src)), r.key, "opus") = 1

(* C8: after the run that examined it, a segment whose CER exceeds the     *)
(* threshold carries the quality-rejected status                           *)
C8_HighCerRecordedAsQualityRejected ==
    RunFinished(1) =>
        \A r \in Rows :
            (r.key \in hist.processed[1] /\ r.src \notin missing /\ r.cer > DEFAULT_MAX_CER)
                => r.wstatus = STATUS_ERROR_LOCAL_TAR_CER

(* C10: every train archive the Packer writes holds at most the configured *)
(* maximum shard size                                                      *)
C10_TrainShardWithinMaxSize ==
    /\ \A n \in DOMAIN shards : n[1] = "train" => ArchiveBytes(shards[n]) <= MaxShardSize
    /\ \A n \in DOMAIN tmp : n[1] = "train" => ArchiveBytes(tmp[n]) <= MaxShardSize

(* sanity: an uninterrupted first run completes exactly UninterruptedCompleted *)
UninterruptedRunResult == RunFinished(1) => CompletedKeys = UninterruptedCompleted

----------------------------------------------------------------------------
(* Observations on the Manifest Generator's files *)

ManifestKeys == [i \in 1..Len(manifest) |-> manifest[i].key]
SplitSrcs == [i \in 1..Len(splits) |-> splits[i].src]
NoRepeat(s) == \A i, j \in 1..Len(s) : s[i] = s[j] => i = j

(* the manifest and the split table hold what they held before the run *)
SameRowsAsBeforeRun ==
    /\ Len(manifest) = Len(gen.pre.keys)
    /\ Range(ManifestKeys) = Range(gen.pre.keys)
    /\ NoRepeat(ManifestKeys)
    /\ Range(SplitSrcs) = Range(gen.pre.srcs)
    /\ NoRepeat(SplitSrcs)

C4_RecordedSplitNeverChanges ==
    [][\A f \in AlignFiles : SplitOf(f) # "NaN" => SplitOf(f)' = SplitOf(f)]_vars

(* C5: between Generator runs every source audio path of the manifest has  *)
(* exactly one row in the split table, and every manifest row of that file *)
(* carries that row's split                                                *)
C5_OneSplitRowPerManifestSource ==
    gen.pc = "idle" =>
        \A i \in 1..Len(manifest) :
            /\ Cardinality({j \in 1..Len(splits) : splits[j].src = manifest[i].src}) = 1
            /\ manifest[i].split = SplitOf(manifest[i].src)

----------------------------------------------------------------------------
(* Observations on the CER gate of the Packer and the Uploader *)

CerOfKey(key) == (CHOOSE r \in Rows : r.key = key).cer

ArchiveEntries ==
    UNION ({Range(shards[n].entries) : n \in DOMAIN shards}
            \cup {Range(tmp[n].entries) : n \in DOMAIN tmp})

PackerExamined == UNION {hist.processed[n] : n \in 1..MaxRuns}

HubRecords == UNION {Range(up.hub[i].records) : i \in 1..Len(up.hub)}

(* C7: with max_cer 0.30 configured, no archive the Packer writes and no   *)
(* batch the Uploader pushes holds a segment with cer > max_cer, and a     *)
(* segment with cer = max_cer passes the CER test of either tool           *)
C7_NoHighCerPackedOrPushed ==
    /\ \A e \in ArchiveEntries : e.key # ForeignKey => CerOfKey(e.key) <= DEFAULT_MAX_CER
    /\ \A r \in Rows :
          (r.cer = DEFAULT_MAX_CER /\ r.src \notin missing /\ r.key \in PackerExamined)
              => r.key \in hist.gate
    /\ up.pc # "off" =>
          /\ \A r \in HubRecords : r.cer <= DEFAULT_MAX_CER
          /\ \A r \in Rows :
                r.key \in up.examined => (r.cer <= DEFAULT_MAX_CER <=> r.key \in up.gate)

C7_Witness ==
    /\ up.pc = "done"
    /\ \E r \in HubRecords : r.cer = DEFAULT_MAX_CER
    /\ \E r \in Rows :
          /\ r.cer > DEFAULT_MAX_CER
          /\ r.key \in up.examined
          /\ r.status = "error"
          /\ r.key \notin {x.key : x \in HubRecords}

----------------------------------------------------------------------------
(* Observations on the Uploader's train batches *)

(* the longest prefix of rows whose cumulative size stays within the limit *)
RECURSIVE PrefixCut(_, _, _)
PrefixCut(rows, size, limit) ==
    IF rows = <<>> THEN <<>>
    ELSE IF 100 * (size + Head(rows).size_mb) > limit THEN <<>>
    ELSE <<Head(rows).src>> \o PrefixCut(Tail(rows), size + Head(rows).size_mb, limit)

Ascending(rows) == \A i, j \in 1..Len(rows) : i < j => rows[i].size_mb <= rows[j].size_mb

BatchSize(b) ==
    SumSeq([i \in 1..Len(b.sorted) |->
        IF b.sorted[i].src \in Range(b.batch) THEN b.sorted[i].size_mb ELSE 0])

(* min(configured max split size, configured percentage of the available  *)
(* memory), times 100                                                      *)
ClaimedLimit(args) ==
    IF args.max_split_limit_mb = <<>>
    THEN args.available_ram_mb * DEFAULT_RAM_PERCENTAGE_LIMIT
    ELSE Min0(100 * args.max_split_limit_mb[1],
              args.available_ram_mb * DEFAULT_RAM_PERCENTAGE_LIMIT)

(* C9 as stated: each train batch is the prefix, in ascending size order,  *)
(* of the train files without a subset id, cut at the first file that      *)
(* would take the cumulative size over effective_limit, so its size is     *)
(* within effective_limit                                                  *)
C9_TrainBatchIsPrefixWithinLimit ==
    up.pc # "off" =>
        \A i \in 1..Len(up.batches) :
            /\ Ascending(up.batches[i].sorted)
            /\ up.batches[i].limit = ClaimedLimit(up.batches[i].args)
            /\ up.batches[i].batch = PrefixCut(up.batches[i].sorted, 0, up.batches[i].limit)
            /\ 100 * BatchSize(up.batches[i]) <= up.batches[i].limit

(* C9 amended: each train batch is that prefix of the files whose pre-load *)
(* check did not fail, and its size is within effective_limit              *)
C9_TrainBatchIsPrefixOfLoadableFilesWithinLimit ==
    up.pc # "off" =>
        \A i \in 1..Len(up.batches) :
            /\ Ascending(up.batches[i].sorted)
            /\ up.batches[i].limit = ClaimedLimit(up.batches[i].args)
            /\ up.batches[i].batch =
                  PrefixCut(SelectSeq(up.batches[i].sorted,
                                      LAMBDA r : r.src \notin up.batches[i].failed),
                            0, up.batches[i].limit)
            /\ 100 * BatchSize(up.batches[i]) <= up.batches[i].limit

(* a limit of 500 MB, files of 300 MB and 400 MB: the first batch holds    *)
(* the 300 MB file alone and the next batch the 400 MB file                *)
C9_Witness ==
    /\ up.pc # "off"
    /\ Len(up.batches) >= 2
    /\ up.batches[1].limit = 500
    /\ up.batches[1].failed = {}
    /\ Len(up.batches[1].sorted) >= 2
    /\ up.batches[1].sorted[1].size_mb = 3
    /\ up.batches[1].sorted[2].size_mb = 4
    /\ up.batches[1].batch = <<up.batches[1].sorted[1].src>>
    /\ up.batches[2].batch = <<up.batches[2].sorted[1].src>>
    /\ up.batches[2].sorted[1].size_mb = 4

----------------------------------------------------------------------------
(* Packer: archives at final names, signals, status transitions            *)

(* the archive at a final name is new or replaced in this step *)
Written(n) == n \notin DOMAIN shards \/ shards'[n] # shards[n]

C16_NoPackingAfterSignal == hist.sig => pk.pc = "idle"

(* C18: a row whose webdataset_status is completed keeps that status in    *)
(* every step of the Packer, and a row whose status is uploaded keeps it   *)
(* in every step of the Uploader                                           *)
C18_CompletedAndUploadedAreFinal ==
    [][\A i \in 1..Len(manifest) :
          /\ manifest[i].wstatus = STATUS_COMPLETED_LOCAL_TAR
                => (i <= Len(manifest') /\ manifest'[i].wstatus = STATUS_COMPLETED_LOCAL_TAR)
          /\ manifest[i].status = "uploaded"
                => (i <= Len(manifest') /\ manifest'[i].status = "uploaded")]_vars

----------------------------------------------------------------------------
(* Uploader: batch outcomes, retries, failures and subset ids              *)

ManifestFailures == {"manifest_load", "manifest_reload", "manifest_update"}

PUSH_FAILED_REASON == "Failed during Hugging Face Hub upload"

(* C11: after process_and_push_batch has returned success for a batch,     *)
(* every segment that failed loading or extraction is an error row with    *)
(* its own reason, every segment put in the push is uploaded when the push *)
(* succeeded and an error row with the push-failure reason when it failed, *)
(* and every segment of the batch that did not fail was put in the push    *)
C11_BatchStatusesFollowOutcome ==
    (up.pc # "off" /\ up.last # <<>> /\ up.last.success) =>
        /\ \A i \in 1..Len(manifest) :
              /\ \A f \in up.last.failed :
                    manifest[i].key = f[1]
                        => manifest[i].status = "error" /\ manifest[i].error_message = f[2]
              /\ manifest[i].key \in up.last.records =>
                    IF up.last.ok
                    THEN manifest[i].status = "uploaded"
                    ELSE /\ manifest[i].status = "error"
                         /\ manifest[i].error_message = PUSH_FAILED_REASON
        /\ up.last.keys = {f[1] : f \in up.last.failed} \cup up.last.records

Pushes(t) == {i \in 1..Len(t) : t[i].ev \in {"push_ok", "push_failed"}}

(* C12: push_to_hub_with_retries makes at most PUSH_RETRIES attempts, a    *)
(* successful attempt is its last one and makes it return True, it returns *)
(* False exactly when PUSH_RETRIES attempts failed, and it sleeps          *)
(* PUSH_RETRY_DELAY exactly between two attempts, never after the last     *)
C12_PushRetriesAndDelay ==
    (up.pc # "off" /\ up.last # <<>> /\ up.last.trace # <<>>) =>
        LET t == up.last.trace
        IN /\ Cardinality(Pushes(t)) <= PUSH_RETRIES
           /\ \A i \in 1..Len(t) : t[i].ev = "push_ok" => i = Len(t)
           /\ up.last.ok <=> t[Len(t)].ev = "push_ok"
           /\ ~up.last.ok <=>
                Cardinality({i \in 1..Len(t) : t[i].ev = "push_failed"}) = PUSH_RETRIES
           /\ \A i \in 1..Len(t) :
                t[i].ev = "sleep" =>
                    /\ t[i].secs = PUSH_RETRY_DELAY
                    /\ i > 1 /\ i < Len(t)
                    /\ t[i - 1].ev = "push_failed"
                    /\ (i + 1) \in Pushes(t)
           /\ \A i \in Pushes(t) : i < Len(t) => t[i + 1].ev = "sleep"

(* two failed attempts, each followed by the delay, then a successful one *)
C12_Witness ==
    /\ up.pc # "off"
    /\ up.last # <<>>
    /\ up.last.ok
    /\ [i \in 1..Len(up.last.trace) |-> up.last.trace[i].ev]
            = <<"push_failed", "sleep", "push_failed", "sleep", "push_ok">>

(* C13: once an update_manifest_file call of the run has returned False,   *)
(* no further batch is built and no further push is attempted              *)
C13_NoBatchOrPushAfterFailedManifestUpdate == up.pc # "off" => ~up.late

(* C14: a file skipped for MemoryError in a batch attempt is not in that   *)
(* attempt's batch, and when it is the only candidate left and is skipped  *)
(* again, it gets a subset id that keeps it from being selected again      *)
C14_LoneMemoryErrorFileIsMarkedUnprocessable ==
    up.pc # "off" =>
        \A i \in 1..Len(up.batches) :
            LET n == up.batches[i]
            IN /\ \A f \in n.skipped : f \notin Range(n.batch)
               /\ ( /\ Len(n.sorted) = 1
                    /\ n.sorted[1].src \in n.skipped
                    /\ \E j \in 1..(i - 1) : n.sorted[1].src \in up.batches[j].skipped )
                    => \E k \in 1..Len(up.splits_df) :
                          /\ up.splits_df[k].src = n.sorted[1].src
                          /\ up.splits_df[k].subset_id # <<>>

(* C17: whatever happens during a write of the manifest, the manifest path *)
(* afterwards holds a complete table: no row that was there is lost        *)
C17_ManifestWriteIsAllOrNothing ==
    [][\A i \in 1..Len(manifest) :
          \E j \in 1..Len(manifest') : manifest'[j].key = manifest[i].key]_vars

C20_ExitCodeTellsManifestFailure ==
    (up.pc = "done" /\ up.exit_code # <<>>) =>
        /\ up.halt \in ManifestFailures => up.exit_code[1] # 0
        /\ up.halt = "none" => up.exit_code[1] = 0

----------------------------------------------------------------------------
(* Packer: what the manifest says against what the final shards hold       *)

(* C21: whenever the Packer is not running, after any runs, interruptions  *)
(* and restarts, every segment whose manifest status is completed has its  *)
(* metadata entry and its audio entry in an archive at a final shard path  *)
C21_CompletedSegmentIsInFinalShard ==
    pk.pc = "idle" => CompletedKeys \subseteq FinalKeys

(* the segment entries (key and kind) an archive holds *)
EntrySet(a) == {<<e.key, e.ext>> : e \in Range(a.entries)}

(* C22: whatever a Packer run writes, every final shard path that held an  *)
(* archive still holds one afterwards, with every segment entry it had     *)
C22_FinalShardNeverLosesEntries ==
    [][\A n \in DOMAIN shards :
          /\ n \in DOMAIN shards'
          /\ EntrySet(shards[n]) \subseteq EntrySet(shards'[n])]_vars

----------------------------------------------------------------------------
(* the Manifest Generator run again on a manifest the Packer and the       *)
(* Uploader have written to                                                *)

(* the first Packer run on a manifest the generator wrote, as far as the   *)
(* manifest shows it: main initialises webdataset_status (lines 750-764),  *)
(* the segments of one source file are packed and save_manifest_updates    *)
(* writes the table back                                                   *)
R_Packer ==
    /\ gen.pc = "idle"
    /\ manifest # <<>>
    /\ \A i \in 1..Len(manifest) : manifest[i].wstatus = ""
    /\ \E f \in {manifest[i].src : i \in 1..Len(manifest)} :
          LET rows == {i \in 1..Len(manifest) :
                          manifest[i].src = f /\ LoadManifest[i] = STATUS_PENDING_LOCAL_TAR}
              coll == [n \in 1..Cardinality(rows) |->
                          Update(SortedSeq(rows)[n], STATUS_COMPLETED_LOCAL_TAR)]
          IN /\ rows # {}
             /\ manifest' = SavedManifest(ApplyUpdates(LoadManifest, coll))
    /\ UNCHANGED <<splits, shards, tmp, missing, badAudio, pk, runs, hist, gen, up>>

(* the first Uploader batch on the manifest, as far as the manifest shows  *)
(* it: the pending segments of one source file are pushed and              *)
(* update_manifest_file marks them uploaded                                *)
R_Uploader ==
    /\ gen.pc = "idle"
    /\ \A i \in 1..Len(manifest) : manifest[i].status = "pending"
    /\ \E f \in {manifest[i].src : i \in 1..Len(manifest)} :
          LET keys == {manifest[i].key :
                          i \in {j \in 1..Len(manifest) :
                                    manifest[j].src = f /\ manifest[j].status = "pending"}}
          IN /\ keys # {}
             /\ manifest' = update_manifest_statuses(manifest,
                                {<<k, "uploaded", "">> : k \in keys})
    /\ UNCHANGED <<splits, shards, tmp, missing, badAudio, pk, runs, hist, gen, up>>

NextRegen ==
    \/ NextGen
    \/ R_Packer
    \/ R_Uploader

(* the alignment files of the country all have the same segment list *)
InitRegen ==
    /\ InitGen
    /\ \E shape \in AlignShapes : gen.shape = [f \in AlignFiles |-> shape]

SpecRegen == InitRegen /\ [][NextRegen]_vars

(* the row of the manifest file m with the given key (<<>> when none) *)
RowOfKey(m, key) ==
    LET r == SelectSeq(m, LAMBDA x : x.key = key)
    IN IF r = <<>> THEN <<>> ELSE r[1]

(* C23: a generator run leaves every row the manifest had unchanged in     *)
(* every column, the Packer's webdataset_status and the Uploader's status  *)
(* included                                                                *)
C23_GeneratorKeepsExistingRows ==
    [][gen.pc = "manifest" =>
          \A i \in 1..Len(manifest) :
              RowOfKey(manifest', manifest[i].key) = manifest[i]]_vars

----------------------------------------------------------------------------
(* Shard Packer with --num-processes 2: the extraction pool of             *)
(* process_audio_file_segments, lines 434-457                              *)

MaxPoolSegs == 3

PoolKindSeqs == UNION { [1..n -> SegKinds] : n \in 1..MaxPoolSegs }

PoolDeviations(kinds, sp, miss, pre) ==
    Cardinality({ <<f, j>> \in Files \X (1..MaxPoolSegs) :
                    j <= Len(kinds[f]) /\ kinds[f][j] # GoodSeg })
    + Cardinality(miss)
    + Cardinality({ f \in Files : sp[f] = "none" })
    + (IF pre = 0 THEN 0 ELSE 1)

PoolWorlds ==
    { w \in [ kinds : [Files -> PoolKindSeqs],
              sp : [Files -> {"test", "validation", "train", "none"}],
              order : {[f \in Files |-> f]},
              miss : SUBSET Files,
              pre : {0, 2, MaxShardSize} ] :
        PoolDeviations(w.kinds, w.sp, w.miss, w.pre) <= MaxDeviations }

InitPool ==
    \E w \in PoolWorlds :
        /\ manifest = WorldManifest(w)
        /\ splits = WorldSplits(w)
        /\ shards = WorldShards(w)
        /\ tmp = <<>>
        /\ missing = w.miss
        /\ badAudio = WorldBadAudio(w)
        /\ pk = PkIdle
        /\ runs = 0
        /\ hist = [HistInit EXCEPT !.reuse = w.pre \in 1..(MaxShardSize - 1),
                                   !.num_processes = 2]
        /\ gen = GenOff
        /\ up = UpOff

(* extract_segment_parallel, lines 360-373: (audio_segment, None), or      *)
(* (None, error_msg) when the extraction raises                            *)
extract_segment_parallel(r) ==
    LET row == manifest[r.pos]
    IN IF row.key \in badAudio
       THEN [error_msg |-> TRUE, bytes |-> 0, data |-> <<>>]
       ELSE [error_msg |-> FALSE,
             bytes |-> SegmentBytes(Max0(ToMs(row.start), 0), ToMs(row.end)),
             data |-> row.key]

(* the ways multiprocessing starts a worker: a fork copies the driver's    *)
(* module globals, a spawned worker imports the module afresh              *)
StartMethods == {"fork", "spawn"}

(* lines 438-439: Pool(processes=num_processes) starts the workers and     *)
(* pool.map returns the results of segment_params in order                 *)
P_PoolMap ==
    /\ pk.pc = "pool_map"
    /\ \E start_method \in StartMethods :
       pk' = [pk EXCEPT
            !.pc = "pool_result",
            !.pool = [ segment_params |-> pk.pool.segment_params,
                       coll0 |-> pk.pool.coll0,
                       entries0 |-> IF pk.tar_obj \in DOMAIN tmp
                                    THEN tmp[pk.tar_obj].entries ELSE <<>>,
                       results |-> [k \in 1..Len(pk.pool.segment_params) |->
                                      extract_segment_parallel(pk.pool.segment_params[k])],
                       k |-> 1,
                       forked |->
                          IF start_method = "fork"
                          THEN [ manifest_df |-> pk.manifest_df,
                                 manifest_updates_collector |->
                                     pk.manifest_updates_collector,
                                 active_tar_file |-> pk.active_tar_file,
                                 active_tar_final_path |-> pk.active_tar_final_path ]
                          ELSE [ manifest_df |-> PkIdle.manifest_df,
                                 manifest_updates_collector |->
                                     PkIdle.manifest_updates_collector,
                                 active_tar_file |-> PkIdle.active_tar_file,
                                 active_tar_final_path |-> PkIdle.active_tar_final_path ] ]]
    /\ UNCHANGED <<manifest, splits, shards, tmp, missing, badAudio, runs, hist, gen, up>>

(* lines 442-457: one turn of                                              *)
(* "for (audio_segment, error_msg), (idx, segment) in                      *)
(*      zip(results, segments_df.iterrows())"                              *)
P_PoolResult ==
    /\ pk.pc = "pool_result"
    /\ LET k == pk.pool.k
           res == pk.pool.results[k]
           r == pk.segments_df[k]
           next == IF k = Len(pk.pool.results) THEN "pool_exit" ELSE "pool_result"
       IN IF res.error_msg
          THEN /\ pk' = [pk EXCEPT !.pc = next, !.pool.k = k + 1,
                            !.manifest_updates_collector =
                                Append(@, Update(r.idx, STATUS_ERROR_LOCAL_TAR_PROCESSING))]
               /\ tmp' = tmp
          ELSE LET a == add_segment_to_tar(tmp, pk.tar_obj, r,
                            [bytes |-> res.bytes, data |-> res.data],
                            pk.manifest_updates_collector)
               IN /\ tmp' = a[1]
                  /\ pk' = [pk EXCEPT !.pc = next, !.pool.k = k + 1,
                                !.manifest_updates_collector = a[2],
                                !.total_bytes_added = @ + a[3],
                                !.segments_processed = IF a[3] > 0 THEN @ + 1 ELSE @]
    /\ UNCHANGED <<manifest, splits, shards, missing, badAudio, runs, hist, gen, up>>

(* signal_handler (lines 217-241) run by a pool worker on its copy of the  *)
(* globals: <<manifest file, tmp, shards, what it wrote>> afterwards; the  *)
(* handlers are registered at import (lines 244-245), so a forked worker   *)
(* inherits them and a spawned worker registers them again, with           *)
(* manifest_df None                                                        *)
WorkerHandler(w, m, t, sh) ==
    LET closed == cleanup_and_close_tar(w, t, sh)
        df == ApplyUpdates(w.manifest_df, w.manifest_updates_collector)
    IN IF w.manifest_df = PkIdle.manifest_df
       THEN <<m, closed[2], closed[3], IF closed[3] # sh THEN {"archive"} ELSE {}>>
       ELSE << [i \in 1..Len(m) |-> [m[i] EXCEPT !.wstatus = df[i]]],
               closed[2], closed[3],
               {"manifest"} \cup (IF closed[3] # sh THEN {"archive"} ELSE {}) >>

(* the end of the with-block, line 438: Pool.__exit__ calls terminate(),   *)
(* which sends SIGTERM to every worker and joins it                        *)
P_PoolExit ==
    /\ pk.pc = "pool_exit"
    /\ LET h == WorkerHandler(pk.pool.forked, manifest, tmp, shards)
       IN /\ manifest' = h[1]
          /\ tmp' = h[2]
          /\ shards' = h[3]
          /\ hist' = [hist EXCEPT !.worker_wrote = @ \cup h[4]]
    /\ pk' = [pk EXCEPT !.pc = "file_end", !.pool = <<>>]
    /\ UNCHANGED <<splits, missing, badAudio, runs, gen, up>>

(* SIGINT / SIGTERM while the pool is alive: the driver runs               *)
(* signal_handler and leaves the with-block by SystemExit, the workers run *)
(* it when the signal reaches them (process group) or when the pool is     *)
(* terminated; the two manifest writes happen in either order              *)
P_PoolSignal ==
    /\ pk.pc \in PoolPcs
    /\ \E workers_first \in BOOLEAN :
          LET h == WorkerHandler(pk.pool.forked, manifest, tmp, shards)
              closed == cleanup_and_close_tar(pk, h[2], h[3])
              df == ApplyUpdates(pk.manifest_df, pk.manifest_updates_collector)
          IN /\ shards' = closed[3]
             /\ manifest' = IF workers_first THEN SavedManifest(df) ELSE h[1]
             /\ hist' = [NoteCut EXCEPT !.sig = TRUE, !.worker_wrote = @ \cup h[4]]
    /\ pk' = PkIdle
    /\ tmp' = <<>>
    /\ UNCHANGED <<splits, missing, badAudio, runs, gen, up>>

NextPool ==
    \/ NextPack
    \/ P_PoolMap
    \/ P_PoolResult
    \/ P_PoolExit
    \/ P_PoolSignal

SpecPool == InitPool /\ [][NextPool]_vars

(* C24: with num_processes above 1 only the driver writes the manifest and *)
(* closes, renames or writes an archive; a worker of the pool never does,  *)
(* also when a termination signal reaches the processes                    *)
C24_OnlyDriverWritesArchiveAndManifest == hist.worker_wrote = {}

(* process_audio_file_segments, lines 458-489: the single-process loop     *)
(* over the segments of a file; <<tmp, collector>> afterwards              *)
RECURSIVE process_segments_serial(_, _, _, _)
process_segments_serial(segs, t, tar_obj, coll) ==
    IF segs = <<>> THEN <<t, coll>>
    ELSE LET r == Head(segs)
             row == manifest[r.pos]
         IN IF ~ValidRange(row) \/ row.key \in badAudio
            THEN process_segments_serial(Tail(segs), t, tar_obj,
                    Append(coll, Update(r.idx, STATUS_ERROR_LOCAL_TAR_PROCESSING)))
            ELSE LET a == add_segment_to_tar(t, tar_obj, r,
                            [bytes |-> SegmentBytes(Max0(ToMs(row.start), 0), ToMs(row.end)),
                             data |-> row.key],
                            coll)
                 IN process_segments_serial(Tail(segs), a[1], tar_obj, a[2])

(* the temporary archives as they were when the pool was started *)
TmpAtPoolStart ==
    IF pk.tar_obj \in DOMAIN tmp
    THEN [tmp EXCEPT ![pk.tar_obj].entries = pk.pool.entries0]
    ELSE tmp

(* C25: when the driver has merged the results of the pool, the archive    *)
(* holds the entries, and the collected updates give the statuses, that    *)
(* the single-process loop produces for the same segments                  *)
C25_PoolGivesSerialResult ==
    pk.pc = "pool_exit" =>
        LET serial == process_segments_serial(pk.segments_df, TmpAtPoolStart,
                                              pk.tar_obj, pk.pool.coll0)
        IN /\ tmp = serial[1]
           /\ ApplyUpdates(pk.manifest_df, pk.manifest_updates_collector)
                = ApplyUpdates(pk.manifest_df, serial[2])

----------------------------------------------------------------------------
(* Manifest Generator: the split table written when there was none         *)

(* the summed durations of the rows before position i that got split sp *)
HoursBefore(rows, i, sp) ==
    SumSeq([j \in 1..(i - 1) |-> IF rows[j].split = sp THEN Duration(rows[j].src) ELSE 0])

TotalHours == SumSeq([f \in AlignFiles |-> IF f \in gen.files THEN Duration(f) ELSE 0])

(* the quotas max(0.01 h, percent of total), scaled like the durations *)
TestQuota == Max0(HourUnits, TotalHours * TEST_SPLIT_PERCENT)
ValQuota == Max0(HourUnits, TotalHours * VALIDATION_SPLIT_PERCENT)

SplitRank(sp) == IF sp = "test" THEN 1 ELSE IF sp = "validation" THEN 2 ELSE 3

(* C26: a split table created from nothing lists every file once, longest  *)
(* total duration first; a file is test while the test duration before it  *)
(* is below the test quota, else validation while the validation duration  *)
(* before it is below its quota, else train; so test files come first,     *)
(* then validation, then train, and the test duration reaches its quota    *)
(* when some file is validation or train                                   *)
C26_NewSplitTableFollowsQuotas ==
    [][(gen.pc = "idle" /\ gen'.pc = "manifest" /\ splits = <<>> /\ gen.files # {}) =>
        LET n == Len(splits')
        IN /\ n = Cardinality(gen.files)
           /\ \A f \in gen.files : Cardinality({i \in 1..n : splits'[i].src = f}) = 1
           /\ \A i \in 1..n : \A j \in i..n :
                   Duration(splits'[i].src) >= Duration(splits'[j].src)
           /\ \A i \in 1..n :
                   splits'[i].split =
                       IF 100 * HoursBefore(splits', i, "test") < TestQuota THEN "test"
                       ELSE IF 100 * HoursBefore(splits', i, "validation") < ValQuota
                            THEN "validation"
                       ELSE "train"
           /\ \A i \in 1..n : \A j \in i..n :
                   SplitRank(splits'[i].split) <= SplitRank(splits'[j].split)
           /\ (\E i \in 1..n : splits'[i].split # "test")
                   => 100 * HoursBefore(splits', n + 1, "test") >= TestQuota]_vars

(* a table created from nothing with test, validation and train files *)
C26_Witness ==
    /\ gen.pc = "manifest"
    /\ gen.pre.srcs = <<>>
    /\ {splits[i].split : i \in 1..Len(splits)} = {"test", "validation", "train"}
    /\ \E i \in 1..Len(splits) : i > 1 /\ Duration(splits[i].src) < Duration(splits[1].src)

----------------------------------------------------------------------------
(* Uploader: files whose pre-flight load fails                             *)

SENTINEL_PRELOAD_ERROR == -99
SENTINEL_MEMORY_SKIP == -100

(* the files of a noted turn whose pre-load raised an error other than     *)
(* MemoryError                                                             *)
Errored(n) == n.failed \ n.skipped

SubsetOf(df, f) ==
    LET m == SelectSeq(df, LAMBDA r : r.src = f)
    IN IF m = <<>> THEN <<>> ELSE m[1].subset_id

StatusesOf(m, f) == {m[i].status : i \in {j \in 1..Len(m) : m[j].src = f}}

TrainTurnTaken == up.pc = "train" /\ Len(up'.batches) > Len(up.batches)

C28_NoPendingSegmentUnderSubsetId ==
    \A i \in 1..Len(splits) :
        (splits[i].split = "train" /\ splits[i].subset_id # <<>>)
            => "pending" \notin StatusesOf(manifest, splits[i].src)

----------------------------------------------------------------------------
(* Uploader: the while loop of process_train_subsets ends                  *)

(* the loop body runs to its end once the loop is entered: the loads and   *)
(* the pushes return                                                       *)
SpecUpLive == InitUp /\ [][NextUp]_vars /\ WF_vars(U_TrainSubset)

Assigned(df) == {i \in 1..Len(df) : df[i].split = "train" /\ df[i].subset_id # <<>>}

(* C29: every turn of the loop of process_train_subsets leaves the loop or *)
(* gives a subset id or a sentinel to a train file that had none; the      *)
(* turns taken so far are at most the files given an id, plus one for the  *)
(* turn that left the loop in each run; and the loop is left               *)
C29_TrainLoopTerminates ==
    /\ [][up.pc = "train" =>
            \/ up'.pc = "done"
            \/ \E i \in Assigned(up'.splits_df) : i \notin Assigned(up.splits_df)]_vars
    /\ [](Len(up.batches) + (IF up.pc = "train" THEN 1 ELSE 0)
            <= Cardinality(Assigned(up.splits_df)) + up.nruns)
    /\ [](Cardinality(Assigned(up.splits_df)) <= NumUpFiles)
    /\ (up.pc = "train" ~> up.pc = "done")

(* the loop was left after a turn that skipped a file for MemoryError and  *)
(* after a turn that built a batch                                         *)
C29_Witness ==
    /\ up.pc = "done"
    /\ Len(up.batches) >= 2
    /\ \E k \in 1..Len(up.batches) : up.batches[k].skipped # {}
    /\ \E k \in 1..Len(up.batches) : up.batches[k].batch # <<>>

----------------------------------------------------------------------------
(* Uploader: the subset id of a built batch                                *)

Sentinels == {SENTINEL_PRELOAD_ERROR, SENTINEL_MEMORY_SKIP}

(* the files of an Uploader run as an earlier run left them: a train file  *)
(* that is missing or undecodable failed its pre-load then, has the        *)
(* sentinel in the split table and its segments marked error               *)
InitUpResume ==
    \E w \in UpWorlds : \E f \in w.miss \cup w.corrupt :
        /\ w.sp[f] = "train"
        /\ manifest = [g \in UpFiles |->
                LET row == ManifestRow(g, 1, [cer |-> w.cer[g], timeOK |-> TRUE, audioOK |-> TRUE],
                                       w.sp[g])
                IN IF g = f THEN [row EXCEPT !.status = "error", !.error_message = "Pre-load failed"]
                   ELSE row]
        /\ splits = SetSubset([g \in UpFiles |-> [SplitRow(g, w.sp[g]) EXCEPT !.size_mb = w.size[g]]],
                              {f}, SENTINEL_PRELOAD_ERROR)
        /\ shards = <<>>
        /\ tmp = <<>>
        /\ missing = w.miss
        /\ badAudio = {}
        /\ pk = [PkIdle EXCEPT !.pc = "off"]
        /\ runs = 0
        /\ hist = HistInit
        /\ gen = GenOff
        /\ up = UpIdle(w)

SpecUpResume == InitUpResume /\ [][NextUp]_vars

TrainIds(df) ==
    {df[i].subset_id[1] : i \in {j \in 1..Len(df) : df[j].split = "train" /\ df[j].subset_id # <<>>}}

(* C30: the id of a built train batch is at least 1 and is no sentinel,    *)
(* and it is 1 when the train rows of the split table hold no subset id    *)
(* other than sentinels                                                    *)
C30_BatchIdIsPositiveAndNotFromSentinel ==
    [][TrainTurnTaken =>
        LET n == up'.batches[Len(up'.batches)]
        IN n.batch # <<>> =>
              /\ n.id >= 1
              /\ n.id \notin Sentinels
              /\ TrainIds(up.splits_df) \subseteq Sentinels => n.id = 1]_vars

====
